---- MODULE Spec2Model ----
(***************************************************************************)
(* A model of tui-mqtt-monitor: the fan-in pipeline from the MQTT          *)
(* adapters over the two shared channels to the router goroutine, the      *)
(* graceful-shutdown sequence of main.go, and the display sink of ui.go.   *)
(*                                                                         *)
(* Spec   : adapters, channels, router, shutdown (main.go, mqtt_client.go, *)
(*          internal/mqtt/client.go).  ui.AddMessage / ui.AddError are     *)
(*          the append to `processed` here; SpecUI models them in detail.  *)
(* SpecUI : the display sink (ui.go): ring buffer and format cache.        *)
(* SpecMain: the two shutdown triggers of main.go.                         *)
(* SpecLog : the session logger and one iteration of the router loop.      *)
(* SpecFn  : NewMonitorMessage: TruncateTopic and SanitizePayload.         *)
(* SpecSub : an adapter becoming connected: subscriptions and the report.  *)
(* SpecPool: the object pools of ui.go.                                    *)
(* SpecTwin: the display sink fed with messages its cache key cannot tell  *)
(*          apart.                                                         *)
(* SpecMu  : the session logger statement by statement, with sl.mu.        *)
(* SpecLive: the router loop under a load that never ends, with the        *)
(*          fairness of Go's select.                                       *)
(***************************************************************************)
EXTENDS Integers, Sequences, FiniteSets, TLC

(***************************************************************************)
(* Bounds.  The channel capacities are 1000 and 100 in main.go:42; the     *)
(* model keeps the code's comparisons and scales the numbers down.         *)
(***************************************************************************)
MsgCap == 1
ErrCap == 2
MaxEvents == 3

Adapters == {"a1", "a2"}

VARIABLES
    \* --- pipeline and shutdown (main.go, mqtt_client.go) ---
    cancelled,      \* ctx.Done() is closed (cancel() has run)
    messagesCh,     \* buffered items of messagesCh, head first
    errorsCh,       \* buffered items of errorsCh, head first
    msgClosed,      \* close(messagesCh) has run
    errClosed,      \* close(errorsCh) has run
    adapter,        \* adapter[a]: state of the adapter's mqtt.Client
    connPc,         \* connPc[a]: position of the connectClients goroutine
    discPc,         \* discPc[a]: position of the disconnectClients goroutine
    sdPc,           \* position of main in the shutdown sequence
    routerPc,       \* position of the handleMessagesAndErrors goroutine
    doneCloses,     \* number of close(messageHandlerDone) executed
    messageCount,   \* router's messageCount
    errorCount,     \* router's errorCount
    crashed,        \* an unrecovered panic has terminated the process
    sent,           \* history: message callbacks invoked
    tries,          \* history: status-event send attempts made
    dropped,        \* history: message callbacks that took the default branch
    warned,         \* history: "Message channel full" warnings logged
    arrived,        \* history: items enqueued, in arrival order
    processed,      \* history: items the router handled, in order
    stages,         \* history: stages of the shutdown sequence, in order
    statusLine,     \* the status line the router passed to ui.UpdateStatus last
    transitions,    \* history: state transitions the adapters have made
    reports,        \* history: connectionHandler calls (status-event attempts)
    statusDropped,  \* history: status-event sends that took the default branch
    \* --- display sink (ui.go) ---
    messages,       \* ui.messages: the raw messages kept for reflow
    truncate,       \* ui.truncate
    formatCache,    \* ui.formatCache: cache key -> formatted string
    lastTerminalWidth, \* ui.lastTerminalWidth
    width,          \* the width getTerminalWidth returns at this moment
    fpc,            \* fpc[t]: position of goroutine t in formatMessageForDisplay
    fmsg,           \* fmsg[t]: the message goroutine t is formatting
    fkey,           \* fkey[t]: the cache key goroutine t has built
    rIdx,           \* refreshAllMessages: index of the range loop (0: not running)
    rLen,           \* refreshAllMessages: length the range loop captured
    lastShown,      \* the string AddMessage queued for display last
    lastOp,         \* history: "evict" when the last cache write evicted
    added,          \* history: the arguments of AddMessage, in order
    \* --- main: the two shutdown triggers (main.go) ---
    sigCh,          \* number of signals buffered in sigCh (capacity 1)
    uiDone,         \* number of values buffered in uiDone (capacity 1)
    uiPc,           \* the startUI goroutine: "running" or "exited"
    shutdownReason, \* what waitForShutdownSignal returned on ("" before)
    \* --- session logger (session_logger.go) and the router iteration ---
    clock,          \* the wall clock
    tickCh,         \* ticker.C: the buffered tick time, 0 when empty
    tickerOn,       \* the ticker has not been stopped
    tkPc,           \* the timeKeeper goroutine: "running" or "returned"
    file,           \* sl.file: "open" or "closed" (the handle it refers to)
    openHandles,    \* number of session log file handles open in the OS
    startTime,      \* sl.startTime
    currentTime,    \* sl.currentTime
    closed,         \* sl.closed
    written,        \* the lines written to the session log files, in order
    itPc,           \* the router iteration: "idle", "display", "status", "log"
    item,           \* the item the router iteration is handling
    consumed,       \* history: the items the router has taken, in order
    effects,        \* history: display, status and log calls, in order
    logTrace,       \* history: the Log calls with what they returned
    closeTrace,     \* history: what the Close calls returned
    created,        \* history: wall clock when startTime was set last
    rotations,      \* history: rotateFile calls made by Log
    lastRot,        \* history: elapsed times seen by the last rotation
    firstLog,       \* history: wall clock at the first Log call, -1 before
    maxDuration,    \* sl.maxDuration
    sessionFiles,   \* history: start time and name of every file created
    mu,             \* sl.mu: "none" or the caller that holds it
    lgPc,           \* Log, step by step: "idle", "check", "write"
    clsPc,          \* Close, step by step: "idle", "mark", "file"
    tkT,            \* timeKeeper: the tick t it has received
    \* --- NewMonitorMessage (message.go) and the topic formatters ---
    fnPc,           \* "off", "input", or "built" once NewMonitorMessage ran
    rawTopic,       \* mqttMsg.Topic
    topicDepth,     \* the configured topic depth
    rawPayload,     \* mqttMsg.Payload
    built,          \* DisplayTopic and Payload of the MonitorMessage built
    formatted,      \* what FormatTopicForDisplay returned ("?" before)
    \* --- one adapter's OnConnect handling (client.go, mqtt_client.go) ---
    cfgTopics,      \* c.config.Topics
    subState,       \* the paho client: "off", "new" (not created), "connecting", "connected", "lost", "reconnecting"
    hPc,            \* OnConnectHandler: "idle", "subscribe", "report", "resub"
    hIdx,           \* index of the loop the handler is in
    cTopics,        \* Client.topics
    rTopics,        \* the slice the re-subscribe loop ranges over
    subErr,         \* subscribeToTopics returned an error
    subscribed,     \* the topics the broker delivers to this client
    connects,       \* history: number of times the adapter became connected
    attempted,      \* history: topics whose subscription was attempted since then
    failedNow,      \* history: a subscription has failed since then
    subReports,     \* history: the StatusEvent enqueue attempts of the handler
    callbacks,      \* history: message callbacks, with the connect they came in
    coPc,           \* MQTTClient.Connect: index of its next statement, 0 for off
    messageHandler, \* Client.messageHandler is set (not nil)
    connectionHandler, \* Client.connectionHandler is set (not nil)
    unheard,        \* history: library callbacks that found the handler nil
    \* --- the object pools of ui.go ---
    sbPool,         \* stringBuilderPool: capacities of the builders in it
    fdPool,         \* formatDataPool: capacities of the slices of the objects in it
    held,           \* held[u]: capacity of the builder user u holds, -1 for none
    stringBuilderPoolCount, \* the counter of ui.go:55
    formatDataPoolCount,    \* the counter of ui.go:56
    clPc,           \* cleanupPools: "idle", "builders", "formatdata"
    clIdx,          \* cleanupPools: the loop variable i
    poolOps,        \* history: number of Get calls of the users
    lastRelease     \* history: the last release of a builder by a user

pipeVars == <<cancelled, messagesCh, errorsCh, msgClosed, errClosed, adapter,
              connPc, discPc, sdPc, routerPc, doneCloses, messageCount,
              errorCount, crashed, sent, tries, dropped, warned, arrived,
              processed, stages, statusLine, transitions, reports,
              statusDropped>>

uiVars == <<messages, truncate, formatCache, lastTerminalWidth, width, fpc,
            fmsg, fkey, rIdx, rLen, lastShown, lastOp, added>>

mainVars == <<sigCh, uiDone, uiPc, shutdownReason>>

muVars == <<mu, lgPc, clsPc, tkT>>

logVars == <<clock, tickCh, tickerOn, tkPc, file, openHandles, startTime,
             currentTime, closed, written, itPc, item, consumed, effects,
             logTrace, closeTrace, created, rotations, lastRot, firstLog,
             maxDuration, sessionFiles, muVars>>

fnVars == <<fnPc, rawTopic, topicDepth, rawPayload, built, formatted>>

regVars == <<coPc, messageHandler, connectionHandler, unheard>>

subVars == <<cfgTopics, subState, hPc, hIdx, cTopics, rTopics, subErr,
             subscribed, connects, attempted, failedNow, subReports,
             callbacks, regVars>>

poolVars == <<sbPool, fdPool, held, stringBuilderPoolCount,
              formatDataPoolCount, clPc, clIdx, poolOps, lastRelease>>

auxVars == <<fnVars, subVars, poolVars>>

vars == <<pipeVars, uiVars, mainVars, logVars, auxVars>>


(***************************************************************************)
(* Go's select over a send on a buffered channel, optionally with a        *)
(* `case <-ctx.Done()` and a `default`.  A send can proceed when the       *)
(* buffer has room; a send on a closed channel also "proceeds": it panics. *)
(* Among the cases that can proceed one is chosen arbitrarily; default is  *)
(* taken only when none can.  The result is the set of possible outcomes;  *)
(* the empty set means the goroutine blocks.                               *)
(***************************************************************************)
SelectSend(ch, cap, chClosed, withCtx, withDefault) ==
    LET sendReady == chClosed \/ Len(ch) < cap
        ctxReady  == withCtx /\ cancelled
    IN  (IF sendReady THEN {IF chClosed THEN "panic" ELSE "sent"} ELSE {})
        \cup (IF ctxReady THEN {"ctx"} ELSE {})
        \cup (IF ~sendReady /\ ~ctxReady /\ withDefault THEN {"drop"} ELSE {})

Alive == ~crashed /\ sdPc # "exited"

Budget == sent + tries < MaxEvents

MsgItem(a) == [kind |-> "msg", src |-> a, detail |-> "message",
               stamp |-> Len(arrived) + 1]

StatusItem(a, d) == [kind |-> "status", src |-> a, detail |-> d,
                     stamp |-> Len(arrived) + 1]

PipeInit ==
    /\ cancelled = FALSE
    /\ messagesCh = <<>>
    /\ errorsCh = <<>>
    /\ msgClosed = FALSE
    /\ errClosed = FALSE
    /\ adapter = [a \in Adapters |-> "new"]
    /\ connPc = [a \in Adapters |-> "spawned"]
    /\ discPc = [a \in Adapters |-> "none"]
    /\ sdPc = "waiting"
    /\ routerPc = "loop"
    /\ doneCloses = 0
    /\ messageCount = 0
    /\ errorCount = 0
    /\ crashed = FALSE
    /\ sent = 0
    /\ tries = 0
    /\ dropped = 0
    /\ warned = 0
    /\ arrived = <<>>
    /\ processed = <<>>
    /\ stages = <<>>
    /\ statusLine = ""
    /\ transitions = 0
    /\ reports = 0
    /\ statusDropped = 0


(***************************************************************************)
(* The select statements of the producers.                                 *)
(***************************************************************************)
\* Faulty variant: the message channel holds one item less than its capacity
MessageHandlerSelect_OffByOne ==
    SelectSend(messagesCh, MsgCap - 1, msgClosed, TRUE, TRUE)

\* message handler: send / ctx.Done() / default
MessageHandlerSelect == SelectSend(messagesCh, MsgCap, msgClosed, TRUE, TRUE)

\* connection handler and safeErrorSend (ctx is never nil: SetContext is
\* called on every client before Connect): send / ctx.Done() / default
StatusHandlerSelect == SelectSend(errorsCh, ErrCap, errClosed, TRUE, TRUE)

\* failure report of the connectClients goroutine: send / ctx.Done(), no default
ConnectReportSelect == SelectSend(errorsCh, ErrCap, errClosed, TRUE, FALSE)

\* Faulty variant: the default branch enqueues the event all the same
StatusSend_DropEnqueues(a, d, o) ==
    /\ errorsCh' = IF o \in {"sent", "drop"}
                   THEN Append(errorsCh, StatusItem(a, d)) ELSE errorsCh
    /\ arrived' = IF o \in {"sent", "drop"}
                  THEN Append(arrived, StatusItem(a, d)) ELSE arrived
    /\ crashed' = (o = "panic")
    /\ tries' = tries + 1
    /\ statusDropped' = IF o = "drop" THEN statusDropped + 1
                        ELSE statusDropped

\* One status-event send attempt with outcome o.  The default branch is
\* empty: the event is gone and nothing is logged.
StatusSend(a, d, o) ==
    /\ errorsCh' = IF o = "sent" THEN Append(errorsCh, StatusItem(a, d))
                   ELSE errorsCh
    /\ arrived' = IF o = "sent" THEN Append(arrived, StatusItem(a, d))
                  ELSE arrived
    /\ crashed' = (o = "panic")
    /\ tries' = tries + 1
    /\ statusDropped' = IF o = "drop" THEN statusDropped + 1
                        ELSE statusDropped

\* connectionHandler(connected, err): the detail of the StatusEvent it builds.
\* On connected the outcome of subscribeToTopics decides the detail.
ConnDetails(connected) ==
    IF connected THEN {"subscribed", "suberror"} ELSE {"connerror"}

\* The paho callbacks reach connectionHandler; it ends in the select.
ConnectionHandler(a, connected) ==
    /\ \E d \in ConnDetails(connected), o \in StatusHandlerSelect :
          StatusSend(a, d, o)
    /\ reports' = reports + 1

(***************************************************************************)
(* connectClients goroutine of adapter a, and mqtt.Client.Connect.         *)
(***************************************************************************)
\* MQTTClient.Connect registers both handlers, then enters Client.Connect.
ConnectBegin(a) ==
    /\ Alive /\ connPc[a] = "spawned"
    /\ connPc' = [connPc EXCEPT ![a] = "inconnect"]
    /\ adapter' = [adapter EXCEPT ![a] = "preparing"]
    /\ UNCHANGED <<cancelled, messagesCh, errorsCh, msgClosed, errClosed,
                   discPc, sdPc, routerPc, doneCloses, messageCount,
                   errorCount, crashed, sent, tries, dropped, warned,
                   arrived, processed, stages>>
    /\ UNCHANGED <<uiVars, mainVars, logVars, auxVars>>
    /\ UNCHANGED <<statusLine, transitions, reports, statusDropped>>

\* getTLSConfig fails: Connect returns an error before a paho client exists.
ConnectTLSFail(a) ==
    /\ Alive /\ connPc[a] = "inconnect" /\ adapter[a] = "preparing"
    /\ connPc' = [connPc EXCEPT ![a] = "report"]
    /\ adapter' = [adapter EXCEPT ![a] = "failed"]
    /\ UNCHANGED <<cancelled, messagesCh, errorsCh, msgClosed, errClosed,
                   discPc, sdPc, routerPc, doneCloses, messageCount,
                   errorCount, crashed, sent, tries, dropped, warned,
                   arrived, processed, stages>>
    /\ UNCHANGED <<uiVars, mainVars, logVars, auxVars>>
    /\ UNCHANGED <<statusLine, transitions, reports, statusDropped>>

\* c.client = mqtt.NewClient(opts); c.client.Connect()
ConnectCreate(a) ==
    /\ Alive /\ connPc[a] = "inconnect" /\ adapter[a] = "preparing"
    /\ adapter' = [adapter EXCEPT ![a] = "connecting"]
    /\ transitions' = transitions + 1
    /\ UNCHANGED <<cancelled, messagesCh, errorsCh, msgClosed, errClosed,
                   connPc, discPc, sdPc, routerPc, doneCloses, messageCount,
                   errorCount, crashed, sent, tries, dropped, warned,
                   arrived, processed, stages>>
    /\ UNCHANGED <<uiVars, mainVars, logVars, auxVars>>
    /\ UNCHANGED <<statusLine, reports, statusDropped>>

\* The broker accepts (first connect or reconnect): OnConnect runs
\* connectionHandler(true, nil); on the first connect the token completes
\* without error and Connect returns nil.
ConnectOK(a) ==
    /\ Alive /\ Budget /\ adapter[a] \in {"connecting", "reconnecting"}
    /\ adapter' = [adapter EXCEPT ![a] = "connected"]
    /\ transitions' = transitions + 1
    /\ connPc' = [connPc EXCEPT ![a] =
                    IF connPc[a] = "inconnect" THEN "done" ELSE connPc[a]]
    /\ ConnectionHandler(a, TRUE)
    /\ UNCHANGED <<cancelled, messagesCh, msgClosed, errClosed, discPc, sdPc,
                   routerPc, doneCloses, messageCount, errorCount, sent,
                   dropped, warned, processed, stages>>
    /\ UNCHANGED <<uiVars, mainVars, logVars, auxVars>>
    /\ UNCHANGED <<statusLine>>

\* token.Error() != nil: Connect returns "failed to connect".
ConnectFail(a) ==
    /\ Alive /\ connPc[a] = "inconnect" /\ adapter[a] = "connecting"
    /\ connPc' = [connPc EXCEPT ![a] = "report"]
    /\ adapter' = [adapter EXCEPT ![a] = "failed"]
    /\ UNCHANGED <<cancelled, messagesCh, errorsCh, msgClosed, errClosed,
                   discPc, sdPc, routerPc, doneCloses, messageCount,
                   errorCount, crashed, sent, tries, dropped, warned,
                   arrived, processed, stages>>
    /\ UNCHANGED <<uiVars, mainVars, logVars, auxVars>>
    /\ UNCHANGED <<statusLine, transitions, reports, statusDropped>>

\* select { case errorsCh <- err: case <-ctx.Done(): }
ConnectReport(a) ==
    /\ Alive /\ Budget /\ connPc[a] = "report"
    /\ \E o \in ConnectReportSelect : StatusSend(a, "connectfail", o)
    /\ connPc' = [connPc EXCEPT ![a] = "done"]
    /\ UNCHANGED <<cancelled, messagesCh, msgClosed, errClosed, adapter,
                   discPc, sdPc, routerPc, doneCloses, messageCount,
                   errorCount, sent, dropped, warned, processed, stages>>
    /\ UNCHANGED <<uiVars, mainVars, logVars, auxVars>>
    /\ UNCHANGED <<statusLine, transitions, reports>>

(***************************************************************************)
(* Callbacks of a live adapter.                                            *)
(***************************************************************************)
\* internalMessageHandler -> the message handler of MQTTClient.Connect
MessageCallback(a) ==
    /\ Alive /\ Budget /\ adapter[a] = "connected"
    /\ \E o \in MessageHandlerSelect :
        /\ messagesCh' = IF o = "sent" THEN Append(messagesCh, MsgItem(a))
                         ELSE messagesCh
        /\ arrived' = IF o = "sent" THEN Append(arrived, MsgItem(a))
                      ELSE arrived
        /\ crashed' = (o = "panic")
        /\ dropped' = IF o = "drop" THEN dropped + 1 ELSE dropped
        /\ warned' = IF o = "drop" THEN warned + 1 ELSE warned
    /\ sent' = sent + 1
    /\ UNCHANGED <<cancelled, errorsCh, msgClosed, errClosed, adapter, connPc,
                   discPc, sdPc, routerPc, doneCloses, messageCount,
                   errorCount, tries, processed, stages>>
    /\ UNCHANGED <<uiVars, mainVars, logVars, auxVars>>
    /\ UNCHANGED <<statusLine, transitions, reports, statusDropped>>

\* ConnectionLostHandler: connectionHandler(false, err)
ConnectionLost(a) ==
    /\ Alive /\ Budget /\ adapter[a] = "connected"
    /\ adapter' = [adapter EXCEPT ![a] = "lost"]
    /\ transitions' = transitions + 1
    /\ ConnectionHandler(a, FALSE)
    /\ UNCHANGED <<cancelled, messagesCh, msgClosed, errClosed, connPc, discPc,
                   sdPc, routerPc, doneCloses, messageCount, errorCount, sent,
                   dropped, warned, processed, stages>>
    /\ UNCHANGED <<uiVars, mainVars, logVars, auxVars>>
    /\ UNCHANGED <<statusLine>>

\* ReconnectingHandler: connectionHandler(false, "reconnecting")
Reconnecting(a) ==
    /\ Alive /\ Budget /\ adapter[a] = "lost"
    /\ adapter' = [adapter EXCEPT ![a] = "reconnecting"]
    /\ transitions' = transitions + 1
    /\ ConnectionHandler(a, FALSE)
    /\ UNCHANGED <<cancelled, messagesCh, msgClosed, errClosed, connPc, discPc,
                   sdPc, routerPc, doneCloses, messageCount, errorCount, sent,
                   dropped, warned, processed, stages>>
    /\ UNCHANGED <<uiVars, mainVars, logVars, auxVars>>
    /\ UNCHANGED <<statusLine>>

(***************************************************************************)
(* Disconnect goroutine of adapter a (disconnectClients).                  *)
(***************************************************************************)
\* Client.IsConnected: c.client != nil && c.client.IsConnected().  The paho
\* client is nil until Client.Connect has created it; with ConnectRetry and
\* AutoReconnect set, paho reports a connecting or reconnecting client as
\* connected.
IsConnected(a) ==
    adapter[a] \in {"connecting", "connected", "lost", "reconnecting"}

\* m.client != nil && m.client.IsConnected(): enter Client.Disconnect, or
\* return at once.
DisconnectCall(a) ==
    /\ Alive /\ discPc[a] = "called"
    /\ discPc' = [discPc EXCEPT ![a] =
                    IF IsConnected(a) THEN "inlib" ELSE "returned"]
    /\ UNCHANGED <<cancelled, messagesCh, errorsCh, msgClosed, errClosed,
                   adapter, connPc, sdPc, routerPc, doneCloses, messageCount,
                   errorCount, crashed, sent, tries, dropped, warned,
                   arrived, processed, stages>>
    /\ UNCHANGED <<uiVars, mainVars, logVars, auxVars>>
    /\ UNCHANGED <<statusLine, transitions, reports, statusDropped>>

\* c.client.Disconnect(250); c.cancel() return.  The call may take any time,
\* or never return: nothing forces this step.
DisconnectReturn(a) ==
    /\ Alive /\ discPc[a] = "inlib"
    /\ discPc' = [discPc EXCEPT ![a] = "returned"]
    /\ adapter' = [adapter EXCEPT ![a] = "disconnected"]
    /\ transitions' = transitions + 1
    /\ UNCHANGED <<cancelled, messagesCh, errorsCh, msgClosed, errClosed,
                   connPc, sdPc, routerPc, doneCloses, messageCount,
                   errorCount, crashed, sent, tries, dropped, warned,
                   arrived, processed, stages>>
    /\ UNCHANGED <<uiVars, mainVars, logVars, auxVars>>
    /\ UNCHANGED <<statusLine, reports, statusDropped>>

\* A panic inside Client.Disconnect: recover() -> safeErrorSend.  A panic of
\* safeErrorSend itself is raised in the deferred function, after recover(),
\* and propagates to the caller of Disconnect.
DisconnectPanic(a) ==
    /\ Alive /\ Budget /\ discPc[a] = "inlib"
    /\ \E o \in StatusHandlerSelect :
          /\ StatusSend(a, "panic", o)
          /\ discPc' = [discPc EXCEPT ![a] =
                          IF o = "panic" THEN "propagated" ELSE "returned"]
    /\ UNCHANGED <<cancelled, messagesCh, msgClosed, errClosed, adapter,
                   connPc, sdPc, routerPc, doneCloses, messageCount,
                   errorCount, sent, dropped, warned, processed, stages>>
    /\ UNCHANGED <<uiVars, mainVars, logVars, auxVars>>
    /\ UNCHANGED <<statusLine, transitions, reports>>

(***************************************************************************)
(* The router: the goroutine of handleMessagesAndErrors.  One step is one  *)
(* iteration of its select loop.  A receive can proceed when the channel   *)
(* holds an item or is closed; buffered items are received before the      *)
(* closure is seen.                                                        *)
(***************************************************************************)
\* case <-ctx.Done(): return   (defer close(messageHandlerDone))
RouterCancelled ==
    /\ Alive /\ routerPc = "loop" /\ cancelled
    /\ routerPc' = "returned"
    /\ doneCloses' = doneCloses + 1
    /\ UNCHANGED <<cancelled, messagesCh, errorsCh, msgClosed, errClosed,
                   adapter, connPc, discPc, sdPc, messageCount, errorCount,
                   crashed, sent, tries, dropped, warned, arrived, processed,
                   stages>>
    /\ UNCHANGED <<uiVars, mainVars, logVars, auxVars>>
    /\ UNCHANGED <<statusLine, transitions, reports, statusDropped>>

\* Faulty variant: a receive yields the newest item
Recv_Newest(ch) == ch[Len(ch)]

\* The item a receive yields: the head of the buffer.
Recv(ch) == Head(ch)

\* fmt.Sprintf("Messages: %d | Errors: %d | Connections: %d", m, e, c)
StatusLine(m, e, c) ==
    "Messages: " \o ToString(m) \o " | Errors: " \o ToString(e)
    \o " | Connections: " \o ToString(c)

\* len(clients)
clientCount == Cardinality(Adapters)

\* handleMessage: ui.AddMessage(msg); *messageCount++; ui.UpdateStatus(...).
\* The display and the session log are the append to processed.
handleMessage ==
    /\ messageCount' = messageCount + 1
    /\ errorCount' = errorCount
    /\ statusLine' = StatusLine(messageCount + 1, errorCount, clientCount)

\* Faulty variant: the status line is built before the counter is incremented
handleError_StaleStatus ==
    /\ errorCount' = errorCount + 1
    /\ messageCount' = messageCount
    /\ statusLine' = StatusLine(messageCount, errorCount, clientCount)

\* handleError: ui.AddError(err); err is never nil here (every producer
\* sends an fmt.Errorf value), so *errorCount++; ui.UpdateStatus(...).
handleError ==
    /\ errorCount' = errorCount + 1
    /\ messageCount' = messageCount
    /\ statusLine' = StatusLine(messageCount, errorCount + 1, clientCount)

\* Faulty variant: the ok test is inverted: the loop returns after a message
RouterMessage_Returns ==
    /\ Alive /\ routerPc = "loop" /\ messagesCh # <<>>
    /\ messagesCh' = Tail(messagesCh)
    /\ processed' = Append(processed, Recv(messagesCh))
    /\ routerPc' = "returned"
    /\ doneCloses' = doneCloses + 1
    /\ UNCHANGED <<cancelled, errorsCh, msgClosed, errClosed, adapter, connPc,
                   discPc, sdPc, messageCount, errorCount, crashed, sent,
                   tries, dropped, warned, arrived, stages, statusLine>>
    /\ UNCHANGED <<uiVars, mainVars, logVars, auxVars>>
    /\ UNCHANGED <<transitions, reports, statusDropped>>

\* case msg, ok := <-messagesCh: handleMessage
RouterMessage ==
    /\ Alive /\ routerPc = "loop" /\ messagesCh # <<>>
    /\ processed' = Append(processed, Recv(messagesCh))
    /\ messagesCh' = Tail(messagesCh)
    /\ handleMessage
    /\ UNCHANGED <<cancelled, errorsCh, msgClosed, errClosed, adapter, connPc,
                   discPc, sdPc, routerPc, doneCloses, crashed,
                   sent, tries, dropped, warned, arrived, stages>>
    /\ UNCHANGED <<uiVars, mainVars, logVars, auxVars>>
    /\ UNCHANGED <<transitions, reports, statusDropped>>

\* case err, ok := <-errorsCh: handleError (err is never nil)
RouterError ==
    /\ Alive /\ routerPc = "loop" /\ errorsCh # <<>>
    /\ processed' = Append(processed, Recv(errorsCh))
    /\ errorsCh' = Tail(errorsCh)
    /\ handleError
    /\ UNCHANGED <<cancelled, messagesCh, msgClosed, errClosed, adapter,
                   connPc, discPc, sdPc, routerPc, doneCloses,
                   crashed, sent, tries, dropped, warned, arrived, stages>>
    /\ UNCHANGED <<uiVars, mainVars, logVars, auxVars>>
    /\ UNCHANGED <<transitions, reports, statusDropped>>

\* if !ok { return } on either channel
RouterClosed ==
    /\ Alive /\ routerPc = "loop"
    /\ \/ messagesCh = <<>> /\ msgClosed
       \/ errorsCh = <<>> /\ errClosed
    /\ routerPc' = "returned"
    /\ doneCloses' = doneCloses + 1
    /\ UNCHANGED <<cancelled, messagesCh, errorsCh, msgClosed, errClosed,
                   adapter, connPc, discPc, sdPc, messageCount, errorCount,
                   crashed, sent, tries, dropped, warned, arrived, processed,
                   stages>>
    /\ UNCHANGED <<uiVars, mainVars, logVars, auxVars>>
    /\ UNCHANGED <<statusLine, transitions, reports, statusDropped>>

(***************************************************************************)
(* main: waitForShutdownSignal and performGracefulShutdown.  sdPc names    *)
(* the statement main executes next.                                       *)
(***************************************************************************)
\* Faulty variant: the channels are closed before the two waits
ShutdownOrder_CloseBeforeWait ==
    <<"cancel", "uistop", "disconnect", "closemsgs", "closeerrs",
      "discwait", "routerwait", "done">>

\* The statements of performGracefulShutdown, in program order:
\*   cancel(); ui.Stop(); disconnectClients (spawn, then wait);
\*   waitForMessageHandler; close(messagesCh); close(errorsCh); return.
ShutdownOrder ==
    <<"cancel", "uistop", "disconnect", "discwait", "routerwait",
      "closemsgs", "closeerrs", "done">>

\* The statement that follows statement s.
After(s) ==
    LET i == CHOOSE k \in 1..Len(ShutdownOrder) : ShutdownOrder[k] = s
    IN  ShutdownOrder[i + 1]

\* One statement of the sequence has run.
Advance(s) ==
    /\ sdPc = s
    /\ sdPc' = After(s)
    /\ stages' = Append(stages, s)

\* waitForShutdownSignal returns: a signal arrived or the UI exited.
ShutdownTrigger ==
    /\ Alive /\ sdPc = "waiting"
    /\ sdPc' = ShutdownOrder[1]
    /\ UNCHANGED <<cancelled, messagesCh, errorsCh, msgClosed, errClosed,
                   adapter, connPc, discPc, routerPc, doneCloses,
                   messageCount, errorCount, crashed, sent, tries, dropped,
                   warned, arrived, processed, stages>>
    /\ UNCHANGED <<uiVars, mainVars, logVars, auxVars>>
    /\ UNCHANGED <<statusLine, transitions, reports, statusDropped>>

\* cancel()
Cancel ==
    /\ Alive /\ Advance("cancel")
    /\ cancelled' = TRUE
    /\ UNCHANGED <<messagesCh, errorsCh, msgClosed, errClosed, adapter,
                   connPc, discPc, routerPc, doneCloses, messageCount,
                   errorCount, crashed, sent, tries, dropped, warned,
                   arrived, processed>>
    /\ UNCHANGED <<uiVars, mainVars, logVars, auxVars>>
    /\ UNCHANGED <<statusLine, transitions, reports, statusDropped>>

\* ui.Stop(): spawns the goroutine that stops the application, and returns.
UIStop ==
    /\ Alive /\ Advance("uistop")
    /\ UNCHANGED <<cancelled, messagesCh, errorsCh, msgClosed, errClosed,
                   adapter, connPc, discPc, routerPc, doneCloses,
                   messageCount, errorCount, crashed, sent, tries, dropped,
                   warned, arrived, processed>>
    /\ UNCHANGED <<uiVars, mainVars, logVars, auxVars>>
    /\ UNCHANGED <<statusLine, transitions, reports, statusDropped>>

\* disconnectClients: one goroutine per client calls c.Disconnect().
DisconnectStart ==
    /\ Alive /\ Advance("disconnect")
    /\ discPc' = [a \in Adapters |-> "called"]
    /\ UNCHANGED <<cancelled, messagesCh, errorsCh, msgClosed, errClosed,
                   adapter, connPc, routerPc, doneCloses, messageCount,
                   errorCount, crashed, sent, tries, dropped, warned,
                   arrived, processed>>
    /\ UNCHANGED <<uiVars, mainVars, logVars, auxVars>>
    /\ UNCHANGED <<statusLine, transitions, reports, statusDropped>>

\* case <-disconnectDone: every Disconnect has returned (wg.Wait())
DisconnectWaitDone ==
    /\ Alive /\ Advance("discwait")
    /\ \A a \in Adapters : discPc[a] \in {"none", "returned"}
    /\ UNCHANGED <<cancelled, messagesCh, errorsCh, msgClosed, errClosed,
                   adapter, connPc, discPc, routerPc, doneCloses,
                   messageCount, errorCount, crashed, sent, tries, dropped,
                   warned, arrived, processed>>
    /\ UNCHANGED <<uiVars, mainVars, logVars, auxVars>>
    /\ UNCHANGED <<statusLine, transitions, reports, statusDropped>>

\* case <-time.After(2 * time.Second)
DisconnectWaitTimeout ==
    /\ Alive /\ Advance("discwait")
    /\ UNCHANGED <<cancelled, messagesCh, errorsCh, msgClosed, errClosed,
                   adapter, connPc, discPc, routerPc, doneCloses,
                   messageCount, errorCount, crashed, sent, tries, dropped,
                   warned, arrived, processed>>
    /\ UNCHANGED <<uiVars, mainVars, logVars, auxVars>>
    /\ UNCHANGED <<statusLine, transitions, reports, statusDropped>>

\* case <-messageHandlerDone
RouterWaitDone ==
    /\ Alive /\ Advance("routerwait")
    /\ doneCloses > 0
    /\ UNCHANGED <<cancelled, messagesCh, errorsCh, msgClosed, errClosed,
                   adapter, connPc, discPc, routerPc, doneCloses,
                   messageCount, errorCount, crashed, sent, tries, dropped,
                   warned, arrived, processed>>
    /\ UNCHANGED <<uiVars, mainVars, logVars, auxVars>>
    /\ UNCHANGED <<statusLine, transitions, reports, statusDropped>>

\* case <-time.After(1 * time.Second)
RouterWaitTimeout ==
    /\ Alive /\ Advance("routerwait")
    /\ UNCHANGED <<cancelled, messagesCh, errorsCh, msgClosed, errClosed,
                   adapter, connPc, discPc, routerPc, doneCloses,
                   messageCount, errorCount, crashed, sent, tries, dropped,
                   warned, arrived, processed>>
    /\ UNCHANGED <<uiVars, mainVars, logVars, auxVars>>
    /\ UNCHANGED <<statusLine, transitions, reports, statusDropped>>

\* close(messagesCh)
CloseMessages ==
    /\ Alive /\ Advance("closemsgs")
    /\ msgClosed' = TRUE
    /\ UNCHANGED <<cancelled, messagesCh, errorsCh, errClosed, adapter,
                   connPc, discPc, routerPc, doneCloses, messageCount,
                   errorCount, crashed, sent, tries, dropped, warned,
                   arrived, processed>>
    /\ UNCHANGED <<uiVars, mainVars, logVars, auxVars>>
    /\ UNCHANGED <<statusLine, transitions, reports, statusDropped>>

\* Faulty variant: close(errorsCh) is missing
CloseErrors_Missing ==
    /\ Alive /\ Advance("closeerrs")
    /\ UNCHANGED <<cancelled, messagesCh, errorsCh, msgClosed, errClosed,
                   adapter, connPc, discPc, routerPc, doneCloses,
                   messageCount, errorCount, crashed, sent, tries, dropped,
                   warned, arrived, processed>>
    /\ UNCHANGED <<uiVars, mainVars, logVars, auxVars>>
    /\ UNCHANGED <<statusLine, transitions, reports, statusDropped>>

\* close(errorsCh)
CloseErrors ==
    /\ Alive /\ Advance("closeerrs")
    /\ errClosed' = TRUE
    /\ UNCHANGED <<cancelled, messagesCh, errorsCh, msgClosed, adapter,
                   connPc, discPc, routerPc, doneCloses, messageCount,
                   errorCount, crashed, sent, tries, dropped, warned,
                   arrived, processed>>
    /\ UNCHANGED <<uiVars, mainVars, logVars, auxVars>>
    /\ UNCHANGED <<statusLine, transitions, reports, statusDropped>>

\* performGracefulShutdown has returned; main returns and the process ends.
Exit ==
    /\ Alive /\ sdPc = "done"
    /\ sdPc' = "exited"
    /\ UNCHANGED <<cancelled, messagesCh, errorsCh, msgClosed, errClosed,
                   adapter, connPc, discPc, routerPc, doneCloses,
                   messageCount, errorCount, crashed, sent, tries, dropped,
                   warned, arrived, processed, stages>>
    /\ UNCHANGED <<uiVars, mainVars, logVars, auxVars>>
    /\ UNCHANGED <<statusLine, transitions, reports, statusDropped>>

Producers ==
    \E a \in Adapters :
        \/ ConnectBegin(a)
        \/ ConnectTLSFail(a)
        \/ ConnectCreate(a)
        \/ ConnectOK(a)
        \/ ConnectFail(a)
        \/ ConnectReport(a)
        \/ MessageCallback(a)
        \/ ConnectionLost(a)
        \/ Reconnecting(a)
        \/ DisconnectCall(a)
        \/ DisconnectReturn(a)
        \/ DisconnectPanic(a)

Router == RouterCancelled \/ RouterMessage \/ RouterError \/ RouterClosed

Orchestrator ==
    \/ ShutdownTrigger
    \/ Cancel
    \/ UIStop
    \/ DisconnectStart
    \/ DisconnectWaitDone
    \/ DisconnectWaitTimeout
    \/ RouterWaitDone
    \/ RouterWaitTimeout
    \/ CloseMessages
    \/ CloseErrors
    \/ Exit

PipeNext == Producers \/ Router \/ Orchestrator


(***************************************************************************)
(* Properties of the pipeline and of the shutdown sequence.                *)
(***************************************************************************)
Range(q) == {q[i] : i \in 1..Len(q)}

IsMsg(x) == x.kind = "msg"

IsStatus(x) == x.kind = "status"

IsPrefix(p, q) == Len(p) <= Len(q) /\ SubSeq(q, 1, Len(p)) = p

Min(x, y) == IF x <= y THEN x ELSE y

\* Messages enqueued so far.
Enq == Len(SelectSeq(arrived, IsMsg))

\* The counters the pipeline keeps: messageCount and errorCount of the
\* router.  The adapters keep none.
Counters == {messageCount, errorCount}

\* C1: no producer ever sends on a queue the orchestrator has closed (such
\* a send is a panic that ends the process), in any interleaving of the
\* shutdown sequence with the callbacks and the connect and disconnect
\* goroutines.
C1_NoSendOnClosedQueue == ~crashed

C3_NoProducerBlocks ==
    /\ MessageHandlerSelect # {}
    /\ StatusHandlerSelect # {}
    /\ \A a \in Adapters : connPc[a] = "report" => ConnectReportSelect # {}

\* C4: once started, the shutdown sequence can always take its next step
\* until it has closed both queues and returned; neither a Disconnect that
\* never returns nor a router that never signals stops it.
C4_ShutdownNeverStuck ==
    sdPc \notin {"waiting", "done", "exited"} => ENABLED Orchestrator

\* C5: the stages of every shutdown happen in the order cancel, stop the
\* rendering surface, start Disconnect on all adapters, end of the
\* disconnect wait, end of the router wait, close messagesCh, close
\* errorsCh; no queue is closed before stages 1-4 have ended.
C5_StageOrder ==
    /\ IsPrefix(stages, <<"cancel", "uistop", "disconnect", "discwait",
                          "routerwait", "closemsgs", "closeerrs">>)
    /\ cancelled <=> "cancel" \in Range(stages)
    /\ (\E a \in Adapters : discPc[a] # "none") =>
          /\ \A a \in Adapters : discPc[a] # "none"
          /\ {"cancel", "uistop", "disconnect"} \subseteq Range(stages)
    /\ msgClosed <=> "closemsgs" \in Range(stages)
    /\ errClosed <=> "closeerrs" \in Range(stages)
    /\ (msgClosed \/ errClosed) =>
          /\ cancelled
          /\ \A a \in Adapters : discPc[a] # "none"
          /\ {"uistop", "discwait", "routerwait"} \subseteq Range(stages)
    /\ errClosed => msgClosed

\* A shutdown that ran to the end past a Disconnect still in progress and a
\* router that had not returned.
C5_Witness ==
    /\ sdPc = "done"
    /\ \E a \in Adapters : discPc[a] = "inlib"
    /\ routerPc = "loop"

C7_NothingDangling ==
    sdPc \in {"done", "exited"} =>
        \A x \in Range(arrived) :
            \/ x \in Range(processed)
            \/ x \in Range(messagesCh) /\ msgClosed
            \/ x \in Range(errorsCh) /\ errClosed

C7_Witness ==
    /\ sdPc = "done"
    /\ errorsCh # <<>> /\ messagesCh # <<>> /\ processed # <<>>

C15_DisconnectNeverPropagates ==
    \A a \in Adapters : discPc[a] # "propagated"

\* C16: every state transition of an adapter (start of connecting,
\* connected, connection lost, reconnecting, disconnected by Disconnect)
\* comes with one status-event send attempt of its connection handler.
C16_EveryTransitionReports == reports = transitions

\* C17: after every step the message counter is the number of messages the
\* router has handled and the error counter the number of status events;
\* once an item was handled the published status line is
\* "Messages: m | Errors: e | Connections: c" with these numbers and the
\* number of adapters; a handled message adds one to the message counter
\* only, a handled status event one to the error counter only, and no
\* counter ever decreases.
C17_CountersAndStatusLine ==
    [][ /\ messageCount' = Len(SelectSeq(processed', IsMsg))
        /\ errorCount' = Len(SelectSeq(processed', IsStatus))
        /\ processed' # <<>> =>
              statusLine' = StatusLine(messageCount', errorCount',
                                       Cardinality(Adapters))
        /\ messageCount' >= messageCount /\ errorCount' >= errorCount
        /\ processed' # processed =>
              IF IsMsg(processed'[Len(processed')])
              THEN messageCount' = messageCount + 1
                   /\ errorCount' = errorCount
              ELSE errorCount' = errorCount + 1
                   /\ messageCount' = messageCount ]_vars

\* A message and then a status event were handled.
C17_Witness ==
    /\ Len(processed) = 2
    /\ IsMsg(processed[1]) /\ IsStatus(processed[2])
    /\ statusLine = "Messages: 1 | Errors: 1 | Connections: 2"

MaxDisplayedMessages == 2
MaxCacheSize == 2
MaxAdds == 4

\* Text truncation constants of ui.go.
EllipsisLength == 3
MaxTopicDisplayWidth == 25
MaxSourceDisplayWidth == 12
TruncatedTopicWidth == 22
TruncatedSourceWidth == 9
MinimumPayloadWidth == 10

\* The messages the router hands to AddMessage.  Timestamp stands for
\* msg.Timestamp.Format("15:04:05.000").
Msgs ==
    { [Source |-> "plant", DisplayTopic |-> "line/state",
       Payload |-> "running since 10:00 with no faults reported by any of the stations on the line",
       Timestamp |-> "10:00:01.000", Color |-> "green"],
      [Source |-> "warehouse-east-2", DisplayTopic |-> "dock/gate",
       Payload |-> "open", Timestamp |-> "10:00:02.000", Color |-> ""] }

\* Messages that the cache key does not tell apart: the first two differ in
\* time stamp and colour only (the same payload published twice), the third
\* has a '|' in its source name that shifts the field boundary.
Twins ==
    { [Source |-> "plant", DisplayTopic |-> "p|line", Payload |-> "up",
       Timestamp |-> "10:00:01.000", Color |-> "green"],
      [Source |-> "plant", DisplayTopic |-> "p|line", Payload |-> "up",
       Timestamp |-> "10:00:07.500", Color |-> "blue"],
      [Source |-> "plant|p", DisplayTopic |-> "line", Payload |-> "up",
       Timestamp |-> "10:00:01.000", Color |-> "green"] }

AllMsgs == Msgs \cup Twins

\* The widths getTerminalWidth can return.
Widths == {40, 80}

\* The goroutines that call formatMessageForDisplay: the router (AddMessage)
\* and the tview event loop (refreshAllMessages).
Threads == {"router", "ui"}

NoMsg == [Source |-> "", DisplayTopic |-> "", Payload |-> "",
          Timestamp |-> "", Color |-> ""]

getSourceColor(color) == IF color # "" THEN color ELSE "cyan"

truncateText(text, maxWidth) ==
    IF maxWidth <= 0 THEN ""
    ELSE IF Len(text) <= maxWidth THEN text
    ELSE IF maxWidth <= EllipsisLength THEN SubSeq(text, 1, maxWidth)
    ELSE SubSeq(text, 1, maxWidth - EllipsisLength) \o "..."

truncateTextIfNeeded(text, maxWidth, truncatedWidth) ==
    IF Len(text) > maxWidth THEN truncateText(text, truncatedWidth) ELSE text

\* Position of the first occurrence of character c in s at or after from; 0
\* when there is none.
IndexOf(s, c, from) ==
    LET hits == {i \in from..Len(s) : SubSeq(s, i, i) = c}
    IN  IF hits = {} THEN 0 ELSE CHOOSE i \in hits : \A j \in hits : i <= j

\* colorTagRegex.ReplaceAllString(text, ""): every leftmost match of
\* \[[^\]]*\] is removed.
RECURSIVE StripTags(_)
StripTags(s) ==
    LET i == IndexOf(s, "[", 1)
        j == IF i = 0 THEN 0 ELSE IndexOf(s, "]", i + 1)
    IN  IF j = 0 THEN s
        ELSE SubSeq(s, 1, i - 1) \o StripTags(SubSeq(s, j + 1, Len(s)))

getVisibleLengthOptimized(text) == Len(StripTags(text))

IsSpace(c) == c \in {" ", "\t", "\n", "\r", "\f"}

\* multiSpaceRegex.ReplaceAllString(payload, " "): each run of white space
\* becomes one space.
RECURSIVE Squeeze(_, _, _)
Squeeze(s, lo, hi) ==
    IF lo > hi THEN ""
    ELSE IF lo = hi
         THEN IF ~IsSpace(SubSeq(s, lo, lo)) THEN SubSeq(s, lo, lo)
              ELSE IF lo > 1 /\ IsSpace(SubSeq(s, lo - 1, lo - 1)) THEN ""
              ELSE " "
         ELSE LET mid == (lo + hi) \div 2
              IN  Squeeze(s, lo, mid) \o Squeeze(s, mid + 1, hi)

CollapseSpaces(s) == Squeeze(s, 1, Len(s))

\* strings.TrimSpace after the collapse: at most one space at each end.
TrimSpace(s) ==
    LET a == IF s # "" /\ IsSpace(SubSeq(s, 1, 1))
             THEN SubSeq(s, 2, Len(s)) ELSE s
    IN  IF a # "" /\ IsSpace(SubSeq(a, Len(a), Len(a)))
        THEN SubSeq(a, 1, Len(a) - 1) ELSE a

cleanPayloadTextOptimized(payload) == TrimSpace(CollapseSpaces(payload))

formatWithoutTruncation(msg) ==
    "[yellow]" \o msg.Timestamp \o "[white] [" \o getSourceColor(msg.Color)
    \o "]" \o msg.Source \o "[white] [green]" \o msg.DisplayTopic
    \o "[white] " \o msg.Payload

\* w is the width getTerminalWidth returns when formatWithTruncation runs.
formatWithTruncation(msg, w) ==
    LET maxWidth == IF w < 50 THEN 120 ELSE w
        displaySource == truncateTextIfNeeded(msg.Source,
                             MaxSourceDisplayWidth, TruncatedSourceWidth)
        displayTopic == truncateTextIfNeeded(msg.DisplayTopic,
                             MaxTopicDisplayWidth, TruncatedTopicWidth)
        prefix == "[yellow]" \o msg.Timestamp \o "[white] ["
                  \o getSourceColor(msg.Color) \o "]" \o displaySource
                  \o "[white] [green]" \o displayTopic \o "[white] "
        available == maxWidth - getVisibleLengthOptimized(prefix)
        availableForPayload ==
            IF available < MinimumPayloadWidth THEN MinimumPayloadWidth
            ELSE available
    IN  prefix \o truncateText(cleanPayloadTextOptimized(msg.Payload),
                               availableForPayload)

\* The formatted strings, computed once.
RenderTable ==
    [m \in AllMsgs, w \in Widths, t \in BOOLEAN |->
        IF t THEN formatWithTruncation(m, w) ELSE formatWithoutTruncation(m)]

\* The cache key formatMessageForDisplay builds.
CacheKey(msg, trunc, w) ==
    msg.Source \o "|" \o msg.DisplayTopic \o "|" \o msg.Payload \o "|"
    \o (IF trunc THEN "t" ELSE "f") \o "|" \o ToString(w)

KeyTable ==
    [m \in AllMsgs, w \in Widths, t \in BOOLEAN |-> CacheKey(m, t, w)]


UIInit ==
    /\ messages = <<>>
    /\ truncate \in BOOLEAN
    /\ formatCache = <<>>
    /\ lastTerminalWidth = 0
    /\ width \in Widths
    /\ fpc = [t \in Threads |-> "idle"]
    /\ fmsg = [t \in Threads |-> NoMsg]
    /\ fkey = [t \in Threads |-> ""]
    /\ rIdx = 0
    /\ rLen = 0
    /\ lastShown = ""
    /\ lastOp = "none"
    /\ added = <<>>

\* Faulty variant: the slice is cut to maxMessages without the copy that shifts it
RingAppend_NoShift(buf, msg) ==
    LET grown == Append(buf, msg)
    IN  IF Len(grown) > MaxDisplayedMessages
        THEN SubSeq(grown, 1, MaxDisplayedMessages)
        ELSE grown

\* ui.messages = append(ui.messages, msg); when longer than maxMessages:
\* copy(ui.messages, ui.messages[1:]); ui.messages = ui.messages[:maxMessages]
RingAppend(buf, msg) ==
    LET grown == Append(buf, msg)
    IN  IF Len(grown) > MaxDisplayedMessages
        THEN SubSeq(Tail(grown) \o <<grown[Len(grown)]>>,
                    1, MaxDisplayedMessages)
        ELSE grown

\* Faulty variant: the size test is > instead of >=
CacheFull_OffByOne(n) == n > MaxCacheSize

\* len(ui.formatCache) >= MaxCacheSize
CacheFull(n) == n >= MaxCacheSize

\* Faulty variant: the cleanup loop has no break and deletes every entry
EvictCount_All(n) == n

\* The number of entries the cleanup loop deletes from a cache of n entries:
\* it deletes, counts, and stops once count >= MaxCacheSize/2.
EvictCount(n) ==
    LET half == MaxCacheSize \div 2
        want == IF half >= 1 THEN half ELSE 1
    IN  IF n <= want THEN n ELSE want

\* formatCache with the entries of the keys in gone deleted.
Without(cache, gone) == [k \in DOMAIN cache \ gone |-> cache[k]]

\* formatCache[key] = result
WithEntry(cache, key, result) ==
    [k \in DOMAIN cache \cup {key} |->
        IF k = key THEN result ELSE cache[k]]

\* AddMessage, first part: store the raw message, then enter
\* formatMessageForDisplay, which reads the width and builds the cache key.
AddMessage(msg) ==
    /\ fpc["router"] = "idle"
    /\ Len(added) < MaxAdds
    /\ messages' = RingAppend(messages, msg)
    /\ added' = Append(added, msg)
    /\ fmsg' = [fmsg EXCEPT !["router"] = msg]
    /\ fkey' = [fkey EXCEPT !["router"] = KeyTable[msg, width, truncate]]
    /\ fpc' = [fpc EXCEPT !["router"] = "lookup"]
    /\ UNCHANGED <<truncate, formatCache, lastTerminalWidth, width, rIdx,
                   rLen, lastShown, lastOp>>
    /\ UNCHANGED <<pipeVars, mainVars, logVars, auxVars>>

\* What goroutine t does with the string formatMessageForDisplay returned:
\* AddMessage queues it for display; the refresh loop goes to the next
\* message and ends after the last.
Deliver(t, result) ==
    /\ lastShown' = IF t = "router" THEN result ELSE lastShown
    /\ rIdx' = IF t = "ui" THEN (IF rIdx < rLen THEN rIdx + 1 ELSE 0)
               ELSE rIdx
    /\ fmsg' = [fmsg EXCEPT ![t] = NoMsg]
    /\ fkey' = [fkey EXCEPT ![t] = ""]

\* formatMessageForDisplay, cache lookup under the read lock: a hit returns
\* the cached string.
Lookup(t) ==
    /\ fpc[t] = "lookup"
    /\ IF fkey[t] \in DOMAIN formatCache
       THEN /\ fpc' = [fpc EXCEPT ![t] = "idle"]
            /\ Deliver(t, formatCache[fkey[t]])
            /\ lastOp' = lastOp
       ELSE /\ fpc' = [fpc EXCEPT ![t] = "insert"]
            /\ UNCHANGED <<lastShown, rIdx, fmsg, fkey, lastOp>>
    /\ UNCHANGED <<messages, truncate, formatCache, lastTerminalWidth, width,
                   rLen, added>>
    /\ UNCHANGED <<pipeVars, mainVars, logVars, auxVars>>

\* formatMessageForDisplay after a miss: format (formatWithTruncation reads
\* the width again), then under the write lock clean the cache if it is
\* full and store the result.  The map iteration deletes arbitrary entries.
Insert(t) ==
    /\ fpc[t] = "insert"
    /\ LET result == RenderTable[fmsg[t], width, truncate]
           n == Cardinality(DOMAIN formatCache)
       IN  /\ IF CacheFull(n)
              THEN \E gone \in SUBSET DOMAIN formatCache :
                      /\ Cardinality(gone) = EvictCount(n)
                      /\ formatCache' =
                            WithEntry(Without(formatCache, gone),
                                      fkey[t], result)
                      /\ lastOp' = "evict"
              ELSE /\ formatCache' = WithEntry(formatCache, fkey[t], result)
                   /\ lastOp' = "none"
           /\ Deliver(t, result)
    /\ fpc' = [fpc EXCEPT ![t] = "idle"]
    /\ UNCHANGED <<messages, truncate, lastTerminalWidth, width, rLen, added>>
    /\ UNCHANGED <<pipeVars, mainVars, logVars, auxVars>>

\* The terminal is resized.
Resize(w) ==
    /\ w # width
    /\ width' = w
    /\ UNCHANGED <<messages, truncate, formatCache, lastTerminalWidth, fpc,
                   fmsg, fkey, rIdx, rLen, lastShown, lastOp, added>>
    /\ UNCHANGED <<pipeVars, mainVars, logVars, auxVars>>

\* SetBeforeDrawFunc: on a changed width remember it and clearFormatCache.
\* It runs on the event loop, between two queued updates.
BeforeDraw ==
    /\ rIdx = 0 /\ fpc["ui"] = "idle"
    /\ width # lastTerminalWidth
    /\ lastTerminalWidth' = width
    /\ formatCache' = <<>>
    /\ lastOp' = "none"
    /\ UNCHANGED <<messages, truncate, width, fpc, fmsg, fkey, rIdx, rLen,
                   lastShown, added>>
    /\ UNCHANGED <<pipeVars, mainVars, logVars, auxVars>>

\* refreshAllMessages: the queued update starts its range over ui.messages.
RefreshStart ==
    /\ rIdx = 0 /\ fpc["ui"] = "idle"
    /\ messages # <<>>
    /\ rLen' = Len(messages)
    /\ rIdx' = 1
    /\ UNCHANGED <<messages, truncate, formatCache, lastTerminalWidth, width,
                   fpc, fmsg, fkey, lastShown, lastOp, added>>
    /\ UNCHANGED <<pipeVars, mainVars, logVars, auxVars>>

\* One iteration of the range loop: formatMessageForDisplay(msg) begins.
RefreshFormat ==
    /\ rIdx > 0 /\ fpc["ui"] = "idle"
    /\ fmsg' = [fmsg EXCEPT !["ui"] = messages[rIdx]]
    /\ fkey' = [fkey EXCEPT !["ui"] = KeyTable[messages[rIdx], width, truncate]]
    /\ fpc' = [fpc EXCEPT !["ui"] = "lookup"]
    /\ UNCHANGED <<messages, truncate, formatCache, lastTerminalWidth, width,
                   rIdx, rLen, lastShown, lastOp, added>>
    /\ UNCHANGED <<pipeVars, mainVars, logVars, auxVars>>

UINext ==
    \/ \E m \in Msgs : AddMessage(m)
    \/ \E t \in Threads : Lookup(t) \/ Insert(t)
    \/ \E w \in Widths : Resize(w)
    \/ BeforeDraw
    \/ RefreshStart
    \/ RefreshFormat

\* The display sink fed with messages the cache key does not tell apart.
TwinNext ==
    \/ \E m \in Twins : AddMessage(m)
    \/ \E t \in Threads : Lookup(t) \/ Insert(t)
    \/ \E w \in Widths : Resize(w)
    \/ BeforeDraw
    \/ RefreshStart
    \/ RefreshFormat

(***************************************************************************)
(* main: the two events that end waitForShutdownSignal, in detail.         *)
(* setupSignalHandler registers sigCh (capacity 1) for SIGINT and SIGTERM; *)
(* startUI runs ui.Start in a goroutine that sends its result on uiDone    *)
(* (capacity 1).  ShutdownTrigger above is WaitReturns without the cause.  *)
(***************************************************************************)
Triggers == {"signal", "uiexit"}

MainInit ==
    /\ sigCh = 0
    /\ uiDone = 0
    /\ uiPc = "running"
    /\ shutdownReason = ""

\* A SIGINT or SIGTERM is delivered: signal.Notify sends without blocking,
\* so a signal that finds sigCh full changes nothing.
SignalArrives ==
    /\ Alive /\ sigCh = 0
    /\ sigCh' = 1
    /\ UNCHANGED <<uiDone, uiPc, shutdownReason>>
    /\ UNCHANGED <<pipeVars, uiVars, logVars, auxVars>>

\* ui.Start returns (a key binding, ui.Stop or the cancelled context stopped
\* the application): uiDone <- ui.Start(ctx), and the goroutine ends.
UIExits ==
    /\ Alive /\ uiPc = "running"
    /\ uiPc' = "exited"
    /\ uiDone' = uiDone + 1
    /\ UNCHANGED <<sigCh, shutdownReason>>
    /\ UNCHANGED <<pipeVars, uiVars, logVars, auxVars>>

\* Faulty variant: main waits for an event again after the sequence
WaitReturns_Again(r) ==
    /\ Alive /\ sdPc \in {"waiting", "done"}
    /\ \/ r = "signal" /\ sigCh > 0 /\ sigCh' = sigCh - 1 /\ uiDone' = uiDone
       \/ r = "uiexit" /\ uiDone > 0 /\ uiDone' = uiDone - 1 /\ sigCh' = sigCh
    /\ shutdownReason' = r
    /\ sdPc' = ShutdownOrder[1]
    /\ UNCHANGED uiPc
    /\ UNCHANGED <<cancelled, messagesCh, errorsCh, msgClosed, errClosed,
                   adapter, connPc, discPc, routerPc, doneCloses,
                   messageCount, errorCount, crashed, sent, tries, dropped,
                   warned, arrived, processed, stages, statusLine,
                   transitions, reports, statusDropped>>
    /\ UNCHANGED <<uiVars, logVars, auxVars>>

\* waitForShutdownSignal: the select receives from sigCh or from uiDone and
\* returns the reason; main then calls performGracefulShutdown, once.
WaitReturns(r) ==
    /\ Alive /\ sdPc = "waiting"
    /\ \/ r = "signal" /\ sigCh > 0 /\ sigCh' = sigCh - 1 /\ uiDone' = uiDone
       \/ r = "uiexit" /\ uiDone > 0 /\ uiDone' = uiDone - 1 /\ sigCh' = sigCh
    /\ shutdownReason' = r
    /\ sdPc' = ShutdownOrder[1]
    /\ UNCHANGED uiPc
    /\ UNCHANGED <<cancelled, messagesCh, errorsCh, msgClosed, errClosed,
                   adapter, connPc, discPc, routerPc, doneCloses,
                   messageCount, errorCount, crashed, sent, tries, dropped,
                   warned, arrived, processed, stages, statusLine,
                   transitions, reports, statusDropped>>
    /\ UNCHANGED <<uiVars, logVars, auxVars>>

\* The statements of performGracefulShutdown and the return of main.
Stages ==
    \/ Cancel
    \/ UIStop
    \/ DisconnectStart
    \/ DisconnectWaitDone
    \/ DisconnectWaitTimeout
    \/ RouterWaitDone
    \/ RouterWaitTimeout
    \/ CloseMessages
    \/ CloseErrors
    \/ Exit

\* main with its triggers, the router's reaction to cancellation, and the
\* Disconnect goroutines of adapters.
MainNext ==
    \/ SignalArrives
    \/ UIExits
    \/ \E r \in Triggers : WaitReturns(r)
    \/ Stages
    \/ RouterCancelled
    \/ \E a \in Adapters :
          \/ ConnectBegin(a)
          \/ ConnectCreate(a)
          \/ DisconnectCall(a)
          \/ DisconnectReturn(a)

(***************************************************************************)
(* The session logger (SessionLogger) and its caller, one iteration of the *)
(* router loop (handleMessage / handleError).                              *)
(*                                                                         *)
(* Time is counted in units of which TickPeriod make one period of the     *)
(* logger's ticker (time.Second in the code).  MaxDuration is the          *)
(* configured max duration of a session file.  MaxClock, MaxItems and      *)
(* MaxCloses bound a run.                                                  *)
(***************************************************************************)
MaxDuration == 2
MaxClock == 8
MaxItems == 3
MaxCloses == 2

TickPeriod == 2

NoItem == [n |-> 0, kind |-> "none"]

\* Faulty variant: the file name has the resolution of a minute
generateFilename_Minutes(start) == start \div (60 * TickPeriod)

\* generateFilename: "mqtt_monitor_" + startTime.Format("20060102_150405")
\* + ".log": the start time cut to the second (TickPeriod units of time),
\* which stands for the name.
generateFilename(start) == start \div TickPeriod

\* os.Create(filepath) has created, or truncated, the file of this name.
SessionFile(start) == [start |-> start, name |-> generateFilename(start)]

\* The state after NewSessionLogger has succeeded and Start has been called:
\* currentTime is time.Now(), rotateFile has created the first file.
LogInit ==
    /\ clock = 0
    /\ tickCh = 0
    /\ tickerOn = TRUE
    /\ tkPc = "running"
    /\ file = "open"
    /\ openHandles = 1
    /\ startTime = 0
    /\ currentTime = 0
    /\ closed = FALSE
    /\ written = <<>>
    /\ itPc = "idle"
    /\ item = NoItem
    /\ consumed = <<>>
    /\ effects = <<>>
    /\ logTrace = <<>>
    /\ closeTrace = <<>>
    /\ created = 0
    /\ rotations = 0
    /\ lastRot = [logical |-> 0, real |-> 0]
    /\ firstLog = -1
    /\ maxDuration = MaxDuration
    /\ sessionFiles = <<SessionFile(0)>>
    /\ mu = "none" /\ lgPc = "idle" /\ clsPc = "idle" /\ tkT = 0

\* The wall clock advances by one unit; at a multiple of TickPeriod the
\* running ticker puts the time into ticker.C unless a tick is still
\* buffered there.  The timeKeeper goroutine takes a tick before the next
\* unit of time has passed, as long as it runs.
ClockAdvance ==
    /\ clock < MaxClock
    /\ tickCh = 0 \/ tkPc = "returned"
    /\ clock' = clock + 1
    /\ tickCh' = IF tickerOn /\ (clock + 1) % TickPeriod = 0 /\ tickCh = 0
                 THEN clock + 1 ELSE tickCh
    /\ UNCHANGED <<tickerOn, tkPc, file, openHandles, startTime, currentTime,
                   closed, written, itPc, item, consumed, effects, logTrace,
                   closeTrace, created, rotations, lastRot, firstLog>>
    /\ UNCHANGED <<maxDuration, sessionFiles, muVars>>
    /\ UNCHANGED <<pipeVars, uiVars, mainVars, auxVars>>

\* Faulty variant: the tick is taken and thrown away
TimeKeeperTick_Stale ==
    /\ tkPc = "running" /\ tickCh # 0
    /\ currentTime' = currentTime
    /\ tickCh' = 0
    /\ UNCHANGED <<clock, tickerOn, tkPc, file, openHandles, startTime,
                   closed, written, itPc, item, consumed, effects, logTrace,
                   closeTrace, created, rotations, lastRot, firstLog>>
    /\ UNCHANGED <<maxDuration, sessionFiles, muVars>>
    /\ UNCHANGED <<pipeVars, uiVars, mainVars, auxVars>>

\* timeKeeper: case t := <-sl.ticker.C: sl.currentTime = t (under sl.mu)
TimeKeeperTick ==
    /\ tkPc = "running" /\ tickCh # 0
    /\ currentTime' = tickCh
    /\ tickCh' = 0
    /\ UNCHANGED <<clock, tickerOn, tkPc, file, openHandles, startTime,
                   closed, written, itPc, item, consumed, effects, logTrace,
                   closeTrace, created, rotations, lastRot, firstLog>>
    /\ UNCHANGED <<maxDuration, sessionFiles, muVars>>
    /\ UNCHANGED <<pipeVars, uiVars, mainVars, auxVars>>

\* timeKeeper: case <-ctx.Done(): return (the context has been cancelled)
TimeKeeperReturn ==
    /\ tkPc = "running"
    /\ tkPc' = "returned"
    /\ UNCHANGED <<clock, tickCh, tickerOn, file, openHandles, startTime,
                   currentTime, closed, written, itPc, item, consumed,
                   effects, logTrace, closeTrace, created, rotations,
                   lastRot, firstLog>>
    /\ UNCHANGED <<maxDuration, sessionFiles, muVars>>
    /\ UNCHANGED <<pipeVars, uiVars, mainVars, auxVars>>

\* Faulty variant: the session log is written before the display update
HandlerOrder_LogFirst == <<"log", "display", "status">>

\* The calls of handleMessage and of handleError, in program order:
\* ui.AddMessage / ui.AddError; counter++ and ui.UpdateStatus;
\* sessionLogger.Log.
HandlerOrder == <<"display", "status", "log">>

\* Where the iteration is after call s: at the next call, or done.
AfterCall(s) ==
    LET i == CHOOSE k \in 1..Len(HandlerOrder) : HandlerOrder[k] = s
    IN  IF i < Len(HandlerOrder) THEN HandlerOrder[i + 1] ELSE "idle"

Effect(op) == [op |-> op, n |-> item.n]

\* The router's select receives an item of kind k and calls its handler.
TakeItem(k) ==
    /\ itPc = "idle" /\ Len(consumed) < MaxItems
    /\ item' = [n |-> Len(consumed) + 1, kind |-> k]
    /\ consumed' = Append(consumed, item')
    /\ itPc' = HandlerOrder[1]
    /\ UNCHANGED <<clock, tickCh, tickerOn, tkPc, file, openHandles,
                   startTime, currentTime, closed, written, effects,
                   logTrace, closeTrace, created, rotations, lastRot,
                   firstLog>>
    /\ UNCHANGED <<maxDuration, sessionFiles, muVars>>
    /\ UNCHANGED <<pipeVars, uiVars, mainVars, auxVars>>

\* ui.AddMessage(msg) / ui.AddError(err)
Display ==
    /\ itPc = "display"
    /\ effects' = Append(effects, Effect("display"))
    /\ itPc' = AfterCall("display")
    /\ UNCHANGED <<clock, tickCh, tickerOn, tkPc, file, openHandles,
                   startTime, currentTime, closed, written, item, consumed,
                   logTrace, closeTrace, created, rotations, lastRot,
                   firstLog>>
    /\ UNCHANGED <<maxDuration, sessionFiles, muVars>>
    /\ UNCHANGED <<pipeVars, uiVars, mainVars, auxVars>>

\* *messageCount++ / *errorCount++; ui.UpdateStatus(...)
PublishStatus ==
    /\ itPc = "status"
    /\ effects' = Append(effects, Effect("status"))
    /\ itPc' = AfterCall("status")
    /\ IF item.kind = "msg" THEN handleMessage ELSE handleError
    /\ UNCHANGED <<clock, tickCh, tickerOn, tkPc, file, openHandles,
                   startTime, currentTime, closed, written, item, consumed,
                   logTrace, closeTrace, created, rotations, lastRot,
                   firstLog>>
    /\ UNCHANGED <<cancelled, messagesCh, errorsCh, msgClosed, errClosed,
                   adapter, connPc, discPc, sdPc, routerPc, doneCloses,
                   crashed, sent, tries, dropped, warned, arrived, processed,
                   stages, transitions, reports, statusDropped>>
    /\ UNCHANGED <<maxDuration, sessionFiles, muVars>>
    /\ UNCHANGED <<uiVars, mainVars, auxVars>>

\* Faulty variant: Log does not look at sl.closed
LogRejects_Never == FALSE

\* if sl.closed { return fmt.Errorf("session logger has been closed") }
LogRejects == closed

\* Faulty variant: the comparison is >= instead of >
RotationDue_OrEqual == currentTime - startTime >= maxDuration

\* sl.currentTime.Sub(sl.startTime) > sl.maxDuration
RotationDue == currentTime - startTime > maxDuration

\* Faulty variant: rotateFile leaves startTime as it is
rotateFile_KeepsStart(ok) ==
    /\ openHandles' = (IF file = "open" THEN openHandles - 1 ELSE openHandles)
                      + (IF ok THEN 1 ELSE 0)
    /\ file' = IF ok THEN "open" ELSE "closed"
    /\ startTime' = startTime
    /\ sessionFiles' = IF ok THEN Append(sessionFiles, SessionFile(startTime))
                       ELSE sessionFiles
    /\ created' = clock
    /\ rotations' = rotations + 1
    /\ lastRot' = [logical |-> currentTime - startTime,
                   real |-> clock - created]

\* rotateFile: the current file is closed first (closing a closed handle is
\* an ignored error), startTime is set, then os.Create succeeds (ok) or
\* fails; on failure sl.file keeps referring to the closed handle.
rotateFile(ok) ==
    /\ openHandles' = (IF file = "open" THEN openHandles - 1 ELSE openHandles)
                      + (IF ok THEN 1 ELSE 0)
    /\ file' = IF ok THEN "open" ELSE "closed"
    /\ startTime' = currentTime
    /\ sessionFiles' = IF ok THEN Append(sessionFiles, SessionFile(currentTime))
                       ELSE sessionFiles
    /\ created' = clock
    /\ rotations' = rotations + 1
    /\ lastRot' = [logical |-> currentTime - startTime,
                   real |-> clock - created]

\* fmt.Fprintf(sl.file, "[%s] %s\n", currentTime, message) on the file f
\* refers to: the line is written, or the write fails on a closed handle.
WriteLine(f) ==
    IF f = "open"
    THEN /\ written' = Append(written, [stamp |-> currentTime, n |-> item.n,
                                        kind |-> item.kind])
         /\ logTrace' = Append(logTrace, [n |-> item.n, res |-> "ok"])
    ELSE /\ written' = written
         /\ logTrace' = Append(logTrace, [n |-> item.n, res |-> "writefail"])

\* Faulty variant: the handler gives up the loop when Log returns an error
AfterLog_StopsOnError(res) ==
    IF res = "ok" THEN AfterCall("log") ELSE "stopped"

\* if err := sessionLogger.Log(logMessage); err != nil { log.Error()... }:
\* the error is logged and the handler returns as after a successful call.
AfterLog(res) == AfterCall("log")

\* sessionLogger.Log(logMessage), under sl.mu; the router logs an error it
\* returns and goes on.
LogCall ==
    /\ itPc = "log"
    /\ effects' = Append(effects, Effect("log"))
    /\ firstLog' = IF firstLog = -1 THEN clock ELSE firstLog
    /\ IF LogRejects
       THEN /\ logTrace' = Append(logTrace, [n |-> item.n, res |-> "closed"])
            /\ UNCHANGED <<file, openHandles, startTime, written, created,
                           rotations, lastRot, sessionFiles>>
       ELSE IF RotationDue
       THEN \E ok \in BOOLEAN :
              /\ rotateFile(ok)
              /\ IF ok THEN WriteLine("open")
                 ELSE /\ written' = written
                      /\ logTrace' = Append(logTrace, [n |-> item.n,
                                                       res |-> "createfail"])
       ELSE /\ WriteLine(file)
            /\ UNCHANGED <<file, openHandles, startTime, created, rotations,
                           lastRot, sessionFiles>>
    /\ itPc' = AfterLog(logTrace'[Len(logTrace')].res)
    /\ UNCHANGED <<clock, tickCh, tickerOn, tkPc, currentTime, closed, item,
                   consumed, closeTrace>>
    /\ UNCHANGED <<maxDuration, muVars>>
    /\ UNCHANGED <<pipeVars, uiVars, mainVars, auxVars>>

\* Close, under sl.mu: nothing on a closed logger; otherwise mark it closed,
\* stop the ticker and close the file (an error on a handle that a failed
\* rotation has closed already).
CloseCall ==
    /\ Len(closeTrace) < MaxCloses
    /\ IF closed
       THEN /\ closeTrace' = Append(closeTrace, "nil")
            /\ UNCHANGED <<closed, tickerOn, file, openHandles>>
       ELSE /\ closed' = TRUE
            /\ tickerOn' = FALSE
            /\ file' = "closed"
            /\ openHandles' = IF file = "open" THEN openHandles - 1
                              ELSE openHandles
            /\ closeTrace' = Append(closeTrace,
                                IF file = "open" THEN "nil" ELSE "error")
    /\ UNCHANGED <<clock, tickCh, tkPc, startTime, currentTime, written,
                   itPc, item, consumed, effects, logTrace, created,
                   rotations, lastRot, firstLog>>
    /\ UNCHANGED <<maxDuration, sessionFiles, muVars>>
    /\ UNCHANGED <<pipeVars, uiVars, mainVars, auxVars>>

LogNext ==
    \/ ClockAdvance
    \/ TimeKeeperTick
    \/ TimeKeeperReturn
    \/ \E k \in {"msg", "status"} : TakeItem(k)
    \/ Display
    \/ PublishStatus
    \/ LogCall
    \/ CloseCall

(***************************************************************************)
(* The session logger statement by statement: Log, Close and timeKeeper    *)
(* each lock sl.mu, and what they do under it is taken apart here, so that *)
(* the three can interleave wherever the mutex lets them.  The max         *)
(* duration is any duration from 0 to MaxDuration.                         *)
(***************************************************************************)
\* The state after NewSessionLogger has succeeded and Start has been called,
\* for any max duration.
MuInit ==
    /\ clock = 0 /\ tickCh = 0 /\ tickerOn = TRUE /\ tkPc = "running"
    /\ file = "open" /\ openHandles = 1
    /\ startTime = 0 /\ currentTime = 0 /\ closed = FALSE
    /\ written = <<>> /\ itPc = "idle" /\ item = NoItem
    /\ consumed = <<>> /\ effects = <<>>
    /\ logTrace = <<>> /\ closeTrace = <<>>
    /\ created = 0 /\ rotations = 0
    /\ lastRot = [logical |-> 0, real |-> 0]
    /\ firstLog = -1
    /\ maxDuration \in 0..MaxDuration
    /\ sessionFiles = <<SessionFile(0)>>
    /\ mu = "none" /\ lgPc = "idle" /\ clsPc = "idle" /\ tkT = 0

\* Faulty variant: Lock returns whether or not the mutex is held
MuFree_Always == TRUE

\* sl.mu.Lock() returns when nobody holds the mutex.
MuFree == mu = "none"

\* The wall clock advances while the logger's goroutines are at any point.
MuClockAdvance ==
    /\ ClockAdvance

\* timeKeeper: case t := <-sl.ticker.C
TkReceive ==
    /\ tkPc = "running" /\ tickCh # 0
    /\ tkT' = tickCh
    /\ tickCh' = 0
    /\ tkPc' = "lock"
    /\ UNCHANGED <<clock, tickerOn, file, openHandles, startTime,
                   currentTime, closed, written, itPc, item, consumed,
                   effects, logTrace, closeTrace, created, rotations,
                   lastRot, firstLog, maxDuration, sessionFiles, mu, lgPc,
                   clsPc>>
    /\ UNCHANGED <<pipeVars, uiVars, mainVars, auxVars>>

\* timeKeeper: sl.mu.Lock()
TkLock ==
    /\ tkPc = "lock" /\ MuFree
    /\ mu' = "timeKeeper"
    /\ tkPc' = "set"
    /\ UNCHANGED <<clock, tickCh, tickerOn, file, openHandles, startTime,
                   currentTime, closed, written, itPc, item, consumed,
                   effects, logTrace, closeTrace, created, rotations,
                   lastRot, firstLog, maxDuration, sessionFiles, lgPc,
                   clsPc, tkT>>
    /\ UNCHANGED <<pipeVars, uiVars, mainVars, auxVars>>

\* timeKeeper: sl.currentTime = t; sl.mu.Unlock()
TkSet ==
    /\ tkPc = "set"
    /\ currentTime' = tkT
    /\ mu' = "none"
    /\ tkPc' = "running"
    /\ UNCHANGED <<clock, tickCh, tickerOn, file, openHandles, startTime,
                   closed, written, itPc, item, consumed, effects, logTrace,
                   closeTrace, created, rotations, lastRot, firstLog,
                   maxDuration, sessionFiles, lgPc, clsPc, tkT>>
    /\ UNCHANGED <<pipeVars, uiVars, mainVars, auxVars>>

\* timeKeeper: case <-ctx.Done(): return
TkReturn ==
    /\ TimeKeeperReturn

\* The router calls Log for its next item: sl.mu.Lock()
LogLock ==
    /\ lgPc = "idle" /\ Len(consumed) < MaxItems /\ MuFree
    /\ item' = [n |-> Len(consumed) + 1, kind |-> "msg"]
    /\ consumed' = Append(consumed, item')
    /\ mu' = "log"
    /\ lgPc' = "check"
    /\ UNCHANGED <<clock, tickCh, tickerOn, tkPc, file, openHandles,
                   startTime, currentTime, closed, written, itPc, effects,
                   logTrace, closeTrace, created, rotations, lastRot,
                   firstLog, maxDuration, sessionFiles, clsPc, tkT>>
    /\ UNCHANGED <<pipeVars, uiVars, mainVars, auxVars>>

\* Log: the closed test, which returns the error (the deferred Unlock
\* runs), and the rotation check with rotateFile, which returns on the
\* error of os.Create.
LogCheck ==
    /\ lgPc = "check"
    /\ IF LogRejects
       THEN /\ logTrace' = Append(logTrace, [n |-> item.n, res |-> "closed"])
            /\ lgPc' = "idle" /\ mu' = "none"
            /\ UNCHANGED <<file, openHandles, startTime, created,
                           rotations, lastRot, sessionFiles>>
       ELSE IF RotationDue
       THEN \E ok \in BOOLEAN :
              /\ rotateFile(ok)
              /\ IF ok
                 THEN lgPc' = "write" /\ mu' = mu /\ logTrace' = logTrace
                 ELSE /\ logTrace' = Append(logTrace,
                                        [n |-> item.n, res |-> "createfail"])
                      /\ lgPc' = "idle" /\ mu' = "none"
       ELSE /\ lgPc' = "write" /\ mu' = mu /\ logTrace' = logTrace
            /\ UNCHANGED <<file, openHandles, startTime, created,
                           rotations, lastRot, sessionFiles>>
    /\ UNCHANGED <<clock, tickCh, tickerOn, tkPc, currentTime, closed,
                   written, itPc, item, consumed, effects, closeTrace,
                   firstLog, maxDuration, clsPc, tkT>>
    /\ UNCHANGED <<pipeVars, uiVars, mainVars, auxVars>>

\* Log: fmt.Fprintf(sl.file, ...); return err (the deferred Unlock runs)
LogWrite ==
    /\ lgPc = "write"
    /\ WriteLine(file)
    /\ lgPc' = "idle"
    /\ mu' = "none"
    /\ UNCHANGED <<clock, tickCh, tickerOn, tkPc, file, openHandles,
                   startTime, currentTime, closed, itPc, item, consumed,
                   effects, closeTrace, created, rotations, lastRot,
                   firstLog, maxDuration, sessionFiles, clsPc, tkT>>
    /\ UNCHANGED <<pipeVars, uiVars, mainVars, auxVars>>

\* Close: sl.mu.Lock()
CloseLock ==
    /\ clsPc = "idle" /\ Len(closeTrace) < MaxCloses /\ MuFree
    /\ mu' = "close"
    /\ clsPc' = "mark"
    /\ UNCHANGED <<clock, tickCh, tickerOn, tkPc, file, openHandles,
                   startTime, currentTime, closed, written, itPc, item,
                   consumed, effects, logTrace, closeTrace, created,
                   rotations, lastRot, firstLog, maxDuration, sessionFiles,
                   lgPc, tkT>>
    /\ UNCHANGED <<pipeVars, uiVars, mainVars, auxVars>>

\* Close: if sl.closed { return nil }; sl.closed = true; sl.ticker.Stop()
CloseMark ==
    /\ clsPc = "mark"
    /\ IF closed
       THEN /\ closeTrace' = Append(closeTrace, "nil")
            /\ clsPc' = "idle" /\ mu' = "none"
            /\ UNCHANGED <<closed, tickerOn>>
       ELSE /\ closed' = TRUE
            /\ tickerOn' = FALSE
            /\ clsPc' = "file"
            /\ UNCHANGED <<closeTrace, mu>>
    /\ UNCHANGED <<clock, tickCh, tkPc, file, openHandles, startTime,
                   currentTime, written, itPc, item, consumed, effects,
                   logTrace, created, rotations, lastRot, firstLog,
                   maxDuration, sessionFiles, lgPc, tkT>>
    /\ UNCHANGED <<pipeVars, uiVars, mainVars, auxVars>>

\* Close: return sl.file.Close() (the deferred Unlock runs)
CloseFile ==
    /\ clsPc = "file"
    /\ file' = "closed"
    /\ openHandles' = IF file = "open" THEN openHandles - 1 ELSE openHandles
    /\ closeTrace' = Append(closeTrace,
                            IF file = "open" THEN "nil" ELSE "error")
    /\ clsPc' = "idle"
    /\ mu' = "none"
    /\ UNCHANGED <<clock, tickCh, tickerOn, tkPc, startTime, currentTime,
                   closed, written, itPc, item, consumed, effects, logTrace,
                   created, rotations, lastRot, firstLog, maxDuration,
                   sessionFiles, lgPc, tkT>>
    /\ UNCHANGED <<pipeVars, uiVars, mainVars, auxVars>>

MuNext ==
    \/ MuClockAdvance
    \/ TkReceive
    \/ TkLock
    \/ TkSet
    \/ TkReturn
    \/ LogLock
    \/ LogCheck
    \/ LogWrite
    \/ CloseLock
    \/ CloseMark
    \/ CloseFile

(***************************************************************************)
(* Building a MonitorMessage (message.go): TruncateTopic and               *)
(* SanitizePayload of internal/mqtt, and FormatTopicForDisplay of          *)
(* config.go.  Strings are taken apart byte by byte, as the Go code does.  *)
(*                                                                         *)
(* MaxLevels bounds the number of levels of a topic, MaxPayloadLen the     *)
(* length of a payload.  maxMessageSize is 512 in client.go:300; the model *)
(* keeps the code's comparison and scales the number down.                 *)
(***************************************************************************)
MaxLevels == 4
MaxPayloadLen == 4
maxMessageSize == 2

\* The byte of s at position i.
At(s, i) == SubSeq(s, i, i)

\* strings.Split(s, sep) for a one-byte separator: "" gives <<"">>.
RECURSIVE Split(_, _)
Split(s, sep) ==
    LET i == IndexOf(s, sep, 1)
    IN  IF i = 0 THEN <<s>>
        ELSE <<SubSeq(s, 1, i - 1)>> \o Split(SubSeq(s, i + 1, Len(s)), sep)

\* strings.Join(parts, sep)
RECURSIVE Join(_, _)
Join(parts, sep) ==
    IF parts = <<>> THEN ""
    ELSE IF Len(parts) = 1 THEN parts[1]
    ELSE parts[1] \o sep \o Join(Tail(parts), sep)

\* Faulty variant: the first depth levels are kept
TruncateTopic_First(topic, depth) ==
    IF depth <= 0 THEN topic
    ELSE LET parts == Split(topic, "/")
         IN  IF Len(parts) <= depth THEN topic
             ELSE Join(SubSeq(parts, 1, depth), "/")

\* mqtt.TruncateTopic
TruncateTopic(topic, depth) ==
    IF depth <= 0 THEN topic
    ELSE LET parts == Split(topic, "/")
         IN  IF Len(parts) <= depth THEN topic
             ELSE Join(SubSeq(parts, Len(parts) - depth + 1, Len(parts)), "/")

\* FormatTopicForDisplay of config.go
FormatTopicForDisplay(topic, depth) ==
    IF depth <= 0 THEN topic
    ELSE LET parts == Split(topic, "/")
         IN  IF Len(parts) <= depth THEN topic
             ELSE Join(SubSeq(parts, Len(parts) - depth + 1, Len(parts)), "/")

\* strings.ReplaceAll(s, from, to) for one-byte from and to.
RECURSIVE ReplaceAll(_, _, _)
ReplaceAll(s, from, to) ==
    IF s = "" THEN ""
    ELSE (IF At(s, 1) = from THEN to ELSE At(s, 1))
         \o ReplaceAll(SubSeq(s, 2, Len(s)), from, to)

\* unicode.IsControl on the bytes the payloads here are made of.
IsControl(c) == c \in {"\t", "\n", "\r", "\f"}

\* strings.Map with the function that turns a control character into ' '.
RECURSIVE MapControl(_)
MapControl(s) ==
    IF s = "" THEN ""
    ELSE (IF IsControl(At(s, 1)) /\ At(s, 1) # " " THEN " " ELSE At(s, 1))
         \o MapControl(SubSeq(s, 2, Len(s)))

\* strings.Fields(s): the maximal runs of non-space bytes, in order.
RECURSIVE Fields(_)
Fields(s) ==
    IF s = "" THEN <<>>
    ELSE IF IsSpace(At(s, 1)) THEN Fields(SubSeq(s, 2, Len(s)))
    ELSE LET stops == {i \in 1..Len(s) : IsSpace(At(s, i))}
             e == IF stops = {} THEN Len(s) + 1
                  ELSE CHOOSE i \in stops : \A j \in stops : i <= j
         IN  <<SubSeq(s, 1, e - 1)>> \o Fields(SubSeq(s, e, Len(s)))

\* Faulty variant: the size limit cuts without appending the marker
Limit_NoMarker(content) ==
    IF Len(content) > maxMessageSize
    THEN SubSeq(content, 1, maxMessageSize)
    ELSE content

\* if len(content) > maxMessageSize { content = content[:maxMessageSize] + "..." }
Limit(content) ==
    IF Len(content) > maxMessageSize
    THEN SubSeq(content, 1, maxMessageSize) \o "..."
    ELSE content

\* mqtt.SanitizePayload
SanitizePayload(payload) ==
    LET content == Limit(payload)
        tabs == ReplaceAll(content, "\t", " ")
        nls == ReplaceAll(tabs, "\n", " ")
        crs == ReplaceAll(nls, "\r", " ")
        mapped == MapControl(crs)
    IN  Join(Fields(mapped), " ")

\* The level names topics are made of; the empty level gives "a//b", "/a", "a/".
LevelNames == {"a", "b", "c", "d", ""}

Topics ==
    {Join(l, "/") : l \in UNION {[1..n -> LevelNames] : n \in 1..MaxLevels}}

Depths == -1..(MaxLevels + 1)

\* The bytes payloads are made of: two printable ones, the space, and
\* control characters ("\f" is one the code has no ReplaceAll for).
PayloadBytes == {"a", ".", " ", "\t", "\n", "\r", "\f"}

Payloads ==
    {Join(l, "") : l \in UNION {[1..n -> PayloadBytes] : n \in 0..MaxPayloadLen}}

NotBuilt == [DisplayTopic |-> "?", Payload |-> "?"]

\* Nothing of this part runs.
FnOff ==
    /\ fnPc = "off"
    /\ rawTopic = "" /\ topicDepth = 0 /\ rawPayload = ""
    /\ built = NotBuilt /\ formatted = "?"

\* An MQTT message has arrived at the message handler: any topic with any
\* configured depth, or any payload.
FnInit ==
    /\ fnPc = "input"
    /\ \/ rawTopic \in Topics /\ topicDepth \in Depths /\ rawPayload = "a"
       \/ rawTopic = "a/b" /\ topicDepth = 0 /\ rawPayload \in Payloads
    /\ built = NotBuilt /\ formatted = "?"

\* NewMonitorMessage(mqttMsg, source, topicDepth, color)
NewMonitorMessage ==
    /\ fnPc = "input"
    /\ built' = [DisplayTopic |-> TruncateTopic(rawTopic, topicDepth),
                 Payload |-> SanitizePayload(rawPayload)]
    /\ fnPc' = "built"
    /\ UNCHANGED <<rawTopic, topicDepth, rawPayload, formatted>>
    /\ UNCHANGED <<pipeVars, uiVars, mainVars, logVars, subVars, poolVars>>

\* FormatTopicForDisplay(topic, depth)
FormatTopic ==
    /\ fnPc \in {"input", "built"} /\ formatted = "?"
    /\ formatted' = FormatTopicForDisplay(rawTopic, topicDepth)
    /\ UNCHANGED <<fnPc, rawTopic, topicDepth, rawPayload, built>>
    /\ UNCHANGED <<pipeVars, uiVars, mainVars, logVars, subVars, poolVars>>

FnNext == NewMonitorMessage \/ FormatTopic

(***************************************************************************)
(* One adapter becoming connected: paho calls the OnConnectHandler of      *)
(* Client.Connect (client.go:143-155), which calls the connection handler  *)
(* of MQTTClient.Connect (mqtt_client.go:70-93) and then re-subscribes the *)
(* topics recorded in Client.topics.                                       *)
(*                                                                         *)
(* MaxConnects bounds the number of (re)connects of a run, MaxCallbacks    *)
(* the number of message callbacks.                                        *)
(***************************************************************************)
MaxConnects == 2
MaxCallbacks == 2

\* The topic lists an adapter can be configured with.
TopicConfigs == {<<>>, <<"t1">>, <<"t1", "t2">>}

SubOff ==
    /\ cfgTopics = <<>> /\ subState = "off" /\ hPc = "idle" /\ hIdx = 0
    /\ cTopics = <<>> /\ rTopics = <<>> /\ subErr = FALSE
    /\ subscribed = {} /\ connects = 0 /\ attempted = {}
    /\ failedNow = FALSE /\ subReports = <<>> /\ callbacks = <<>>
    /\ coPc = 0 /\ messageHandler = FALSE /\ connectionHandler = FALSE
    /\ unheard = 0

\* NewMQTTClient has returned and the connect worker calls Connect: no
\* handler is set, the paho client does not exist.
SubInit ==
    /\ cfgTopics \in TopicConfigs /\ subState = "new"
    /\ hPc = "idle" /\ hIdx = 0
    /\ cTopics = <<>> /\ rTopics = <<>> /\ subErr = FALSE
    /\ subscribed = {} /\ connects = 0 /\ attempted = {}
    /\ failedNow = FALSE /\ subReports = <<>> /\ callbacks = <<>>
    /\ coPc = 1 /\ messageHandler = FALSE /\ connectionHandler = FALSE
    /\ unheard = 0

\* Faulty variant: the client starts connecting before the handlers are set
ConnectOrder_ConnectFirst ==
    <<"Connect", "SetMessageHandler", "SetConnectionHandler", "SetQoS">>

\* The statements of MQTTClient.Connect, in program order:
\* c.client.SetMessageHandler(...); c.client.SetConnectionHandler(...);
\* c.client.SetQoS(...); c.client.Connect().
ConnectOrder ==
    <<"SetMessageHandler", "SetConnectionHandler", "SetQoS", "Connect">>

\* Statement s of MQTTClient.Connect is the next one, and has run.
ConnectStep(s) ==
    /\ coPc \in 1..Len(ConnectOrder) /\ ConnectOrder[coPc] = s
    /\ coPc' = coPc + 1

\* c.client.SetMessageHandler(func(msg mqtt.Message) {...})
SetMessageHandler ==
    /\ ConnectStep("SetMessageHandler")
    /\ messageHandler' = TRUE
    /\ UNCHANGED <<cfgTopics, subState, hPc, hIdx, cTopics, rTopics, subErr,
                   subscribed, connects, attempted, failedNow, subReports,
                   callbacks, connectionHandler, unheard>>
    /\ UNCHANGED <<pipeVars, uiVars, mainVars, logVars, fnVars, poolVars>>

\* c.client.SetConnectionHandler(func(connected bool, err error) {...})
SetConnectionHandler ==
    /\ ConnectStep("SetConnectionHandler")
    /\ connectionHandler' = TRUE
    /\ UNCHANGED <<cfgTopics, subState, hPc, hIdx, cTopics, rTopics, subErr,
                   subscribed, connects, attempted, failedNow, subReports,
                   callbacks, messageHandler, unheard>>
    /\ UNCHANGED <<pipeVars, uiVars, mainVars, logVars, fnVars, poolVars>>

\* c.client.SetQoS(c.config.QoS)
SetQoS ==
    /\ ConnectStep("SetQoS")
    /\ UNCHANGED <<cfgTopics, subState, hPc, hIdx, cTopics, rTopics, subErr,
                   subscribed, connects, attempted, failedNow, subReports,
                   callbacks, messageHandler, connectionHandler, unheard>>
    /\ UNCHANGED <<pipeVars, uiVars, mainVars, logVars, fnVars, poolVars>>

\* c.client.Connect(): Client.Connect sets the library's three handlers on
\* the options, creates the paho client and calls its Connect; from here on
\* the library calls back.
ClientConnect ==
    /\ ConnectStep("Connect")
    /\ subState = "new"
    /\ subState' = "connecting"
    /\ UNCHANGED <<cfgTopics, hPc, hIdx, cTopics, rTopics, subErr,
                   subscribed, connects, attempted, failedNow, subReports,
                   callbacks, messageHandler, connectionHandler, unheard>>
    /\ UNCHANGED <<pipeVars, uiVars, mainVars, logVars, fnVars, poolVars>>

\* The broker accepts: OnConnectHandler runs connectionHandler(true, nil),
\* which enters subscribeToTopics; with no topic configured that returns
\* nil at once.  With c.connectionHandler nil the handler goes straight to
\* its range over Client.topics.
OnConnect ==
    /\ subState \in {"connecting", "reconnecting"} /\ hPc = "idle"
    /\ connects < MaxConnects
    /\ subState' = "connected"
    /\ connects' = connects + 1
    /\ attempted' = {}
    /\ failedNow' = FALSE
    /\ subErr' = FALSE
    /\ IF connectionHandler
       THEN /\ IF cfgTopics = <<>>
               THEN hPc' = "report" /\ hIdx' = 0
               ELSE hPc' = "subscribe" /\ hIdx' = 1
            /\ UNCHANGED <<rTopics, unheard>>
       ELSE /\ unheard' = unheard + 1
            /\ rTopics' = cTopics
            /\ IF cTopics = <<>>
               THEN hPc' = "idle" /\ hIdx' = 0
               ELSE hPc' = "resub" /\ hIdx' = 1
    /\ UNCHANGED <<cfgTopics, cTopics, subscribed, subReports, callbacks,
                   coPc, messageHandler, connectionHandler>>
    /\ UNCHANGED <<pipeVars, uiVars, mainVars, logVars, fnVars, poolVars>>

\* Client.Subscribe(topics...): "client is not connected" when the
\* connection is gone by now; otherwise one subscribeToTopic per topic, in
\* order, appending to Client.topics on success and returning the error of
\* the first that fails.
SubscribeTopic(ok) ==
    /\ hPc = "subscribe"
    /\ IF hIdx = 1 /\ subState # "connected"
       THEN /\ subErr' = TRUE /\ hPc' = "report"
            /\ UNCHANGED <<hIdx, attempted, failedNow, cTopics, subscribed>>
       ELSE /\ attempted' = attempted \cup {cfgTopics[hIdx]}
            /\ failedNow' = (failedNow \/ ~ok)
            /\ subErr' = ~ok
            /\ cTopics' = IF ok THEN Append(cTopics, cfgTopics[hIdx])
                          ELSE cTopics
            /\ subscribed' = IF ok THEN subscribed \cup {cfgTopics[hIdx]}
                             ELSE subscribed
            /\ IF ~ok \/ hIdx = Len(cfgTopics)
               THEN hPc' = "report" /\ hIdx' = hIdx
               ELSE hPc' = "subscribe" /\ hIdx' = hIdx + 1
    /\ UNCHANGED <<cfgTopics, subState, rTopics, connects, subReports,
                   callbacks>>
    /\ UNCHANGED regVars
    /\ UNCHANGED <<pipeVars, uiVars, mainVars, logVars, fnVars, poolVars>>

\* The connection handler builds the StatusEvent from what subscribeToTopics
\* returned and makes its one select on errorsCh; then OnConnectHandler
\* starts its range over Client.topics.
SubReport ==
    /\ hPc = "report"
    /\ subReports' = Append(subReports,
                        [connect |-> connects,
                         detail |-> IF subErr THEN "suberror"
                                    ELSE "subscribed"])
    /\ rTopics' = cTopics
    /\ IF cTopics = <<>>
       THEN hPc' = "idle" /\ hIdx' = 0
       ELSE hPc' = "resub" /\ hIdx' = 1
    /\ UNCHANGED <<cfgTopics, subState, cTopics, subErr, subscribed,
                   connects, attempted, failedNow, callbacks>>
    /\ UNCHANGED regVars
    /\ UNCHANGED <<pipeVars, uiVars, mainVars, logVars, fnVars, poolVars>>

\* One iteration of the re-subscribe loop: a failure is logged, no more.
Resubscribe(ok) ==
    /\ hPc = "resub"
    /\ attempted' = attempted \cup {rTopics[hIdx]}
    /\ failedNow' = (failedNow \/ ~ok)
    /\ subscribed' = IF ok THEN subscribed \cup {rTopics[hIdx]}
                     ELSE subscribed
    /\ IF hIdx = Len(rTopics)
       THEN hPc' = "idle" /\ hIdx' = 0
       ELSE hPc' = "resub" /\ hIdx' = hIdx + 1
    /\ UNCHANGED <<cfgTopics, subState, cTopics, rTopics, subErr, connects,
                   subReports, callbacks>>
    /\ UNCHANGED regVars
    /\ UNCHANGED <<pipeVars, uiVars, mainVars, logVars, fnVars, poolVars>>

\* A message on a subscribed topic t reaches internalMessageHandler, which
\* calls c.messageHandler unless it is nil.
SubMessage(t) ==
    /\ subState = "connected" /\ t \in subscribed
    /\ Len(callbacks) + unheard < MaxCallbacks
    /\ IF messageHandler
       THEN /\ callbacks' = Append(callbacks,
                                [connect |-> connects, topic |-> t,
                                 afterFailure |-> failedNow])
            /\ unheard' = unheard
       ELSE /\ callbacks' = callbacks
            /\ unheard' = unheard + 1
    /\ UNCHANGED <<cfgTopics, subState, hPc, hIdx, cTopics, rTopics, subErr,
                   subscribed, connects, attempted, failedNow, subReports>>
    /\ UNCHANGED <<coPc, messageHandler, connectionHandler>>
    /\ UNCHANGED <<pipeVars, uiVars, mainVars, logVars, fnVars, poolVars>>

\* The connection is lost; with a clean session the broker forgets the
\* subscriptions.
SubLost(clean) ==
    /\ subState = "connected"
    /\ subState' = "lost"
    /\ subscribed' = IF clean THEN {} ELSE subscribed
    /\ UNCHANGED <<cfgTopics, hPc, hIdx, cTopics, rTopics, subErr, connects,
                   attempted, failedNow, subReports, callbacks>>
    /\ UNCHANGED regVars
    /\ UNCHANGED <<pipeVars, uiVars, mainVars, logVars, fnVars, poolVars>>

\* paho starts to reconnect (SetAutoReconnect(true)).
SubReconnecting ==
    /\ subState = "lost"
    /\ subState' = "reconnecting"
    /\ UNCHANGED <<cfgTopics, hPc, hIdx, cTopics, rTopics, subErr,
                   subscribed, connects, attempted, failedNow, subReports,
                   callbacks>>
    /\ UNCHANGED regVars
    /\ UNCHANGED <<pipeVars, uiVars, mainVars, logVars, fnVars, poolVars>>

SubNext ==
    \/ SetMessageHandler
    \/ SetConnectionHandler
    \/ SetQoS
    \/ ClientConnect
    \/ OnConnect
    \/ \E ok \in BOOLEAN : SubscribeTopic(ok)
    \/ SubReport
    \/ \E ok \in BOOLEAN : Resubscribe(ok)
    \/ \E t \in {"t1", "t2"} : SubMessage(t)
    \/ \E clean \in BOOLEAN : SubLost(clean)
    \/ SubReconnecting

(***************************************************************************)
(* The object pools of ui.go: stringBuilderPool, whose builders the render *)
(* path (formatMessageForDisplay), AddError and refreshAllMessages take    *)
(* and release, and formatDataPool, which only cleanupPools touches.       *)
(* A sync.Pool may hand out any object it holds or make a new one, and the *)
(* garbage collector may empty it.                                         *)
(*                                                                         *)
(* MaxPoolSize is 100 in ui.go:46; the model keeps the loop and scales the *)
(* number down.  MaxPoolOps bounds the number of Get calls of a run.       *)
(***************************************************************************)
MaxPoolSize == 2
MaxPoolOps == 3

InitialBuilderCapacity == 256
MaxBuilderCapacity == 1024

\* The code that takes a builder from the pool: the cache key of
\* formatMessageForDisplay, AddError, refreshAllMessages.
Users == {"key", "error", "refresh"}

\* The numbers of bytes a user can write into (or Grow) its builder: up to
\* the ceiling, and past it.
WriteSizes == {1024, 1025}

\* A new formatData: the capacities of timestamp, sourceColor, displayTopic
\* and payload.
NewFormatData == <<16, 16, 64, 256>>

\* formatData.shouldReturnToPool
shouldReturnToPool(fd) ==
    fd[1] <= 32 /\ fd[2] <= 32 /\ fd[3] <= 128 /\ fd[4] <= 512

\* psb.Builder.Reset(): strings.Builder.Reset sets the buffer to nil, so the
\* capacity of the builder is 0 afterwards whatever it was.
CapAfterReset(cap) == 0

\* q without its element at position i.
RemoveAt(q, i) == SubSeq(q, 1, i - 1) \o SubSeq(q, i + 1, Len(q))

NoRelease == [grown |-> -1, after |-> -1, returned |-> FALSE]

PoolOff ==
    /\ sbPool = <<>> /\ fdPool = <<>>
    /\ held = [u \in Users |-> -1]
    /\ stringBuilderPoolCount = 0 /\ formatDataPoolCount = 0
    /\ clPc = "off" /\ clIdx = 0 /\ poolOps = 0
    /\ lastRelease = NoRelease

\* The pools are empty when the program starts.
PoolInit ==
    /\ sbPool = <<>> /\ fdPool = <<>>
    /\ held = [u \in Users |-> -1]
    /\ stringBuilderPoolCount = 0 /\ formatDataPoolCount = 0
    /\ clPc = "idle" /\ clIdx = 0 /\ poolOps = 0
    /\ lastRelease = NoRelease

\* stringBuilderPool.Get(): a builder of the pool, or New, which counts it
\* and grows it to InitialBuilderCapacity.
PoolGet(u) ==
    /\ clPc # "off" /\ held[u] = -1 /\ poolOps < MaxPoolOps
    /\ poolOps' = poolOps + 1
    /\ \/ \E i \in 1..Len(sbPool) :
            /\ held' = [held EXCEPT ![u] = sbPool[i]]
            /\ sbPool' = RemoveAt(sbPool, i)
            /\ UNCHANGED stringBuilderPoolCount
       \/ /\ held' = [held EXCEPT ![u] = InitialBuilderCapacity]
          /\ stringBuilderPoolCount' = stringBuilderPoolCount + 1
          /\ UNCHANGED sbPool
    /\ UNCHANGED <<fdPool, formatDataPoolCount, clPc, clIdx, lastRelease>>
    /\ UNCHANGED <<pipeVars, uiVars, mainVars, logVars, fnVars, subVars>>

\* The user writes n bytes in all (WriteString, WriteByte, Grow): the
\* builder's capacity becomes at least n.
PoolWrite(u, n) ==
    /\ held[u] # -1 /\ n > held[u]
    /\ held' = [held EXCEPT ![u] = n]
    /\ UNCHANGED <<sbPool, fdPool, stringBuilderPoolCount,
                   formatDataPoolCount, clPc, clIdx, poolOps, lastRelease>>
    /\ UNCHANGED <<pipeVars, uiVars, mainVars, logVars, fnVars, subVars>>

\* The deferred function of the user: Reset, then Put if the capacity is at
\* most maxCap, else the counter is decremented and the builder is dropped.
PoolRelease(u) ==
    /\ held[u] # -1
    /\ LET after == CapAfterReset(held[u])
       IN  /\ IF after <= MaxBuilderCapacity
              THEN /\ sbPool' = Append(sbPool, after)
                   /\ UNCHANGED stringBuilderPoolCount
              ELSE /\ stringBuilderPoolCount' = stringBuilderPoolCount - 1
                   /\ UNCHANGED sbPool
           /\ lastRelease' = [grown |-> held[u], after |-> after,
                              returned |-> after <= MaxBuilderCapacity]
    /\ held' = [held EXCEPT ![u] = -1]
    /\ UNCHANGED <<fdPool, formatDataPoolCount, clPc, clIdx, poolOps>>
    /\ UNCHANGED <<pipeVars, uiVars, mainVars, logVars, fnVars, subVars>>

\* The garbage collector empties the pools.
PoolGC ==
    /\ clPc # "off" /\ (sbPool # <<>> \/ fdPool # <<>>)
    /\ sbPool' = <<>> /\ fdPool' = <<>>
    /\ UNCHANGED <<held, stringBuilderPoolCount, formatDataPoolCount, clPc,
                   clIdx, poolOps, lastRelease>>
    /\ UNCHANGED <<pipeVars, uiVars, mainVars, logVars, fnVars, subVars>>

\* BeforeDrawFunc: more than 30 seconds since the last cleanup.
CleanupStart ==
    /\ clPc = "idle" /\ poolOps < MaxPoolOps
    /\ clPc' = "builders" /\ clIdx' = 0
    /\ poolOps' = poolOps + 1
    /\ UNCHANGED <<sbPool, fdPool, held, stringBuilderPoolCount,
                   formatDataPoolCount, lastRelease>>
    /\ UNCHANGED <<pipeVars, uiVars, mainVars, logVars, fnVars, subVars>>

\* One iteration of the first loop of cleanupPools.  Get never returns nil
\* (it calls New on an empty pool), so the loop runs MaxPoolSize times: an
\* oversized builder is counted out and dropped, any other is reset and put
\* back.
CleanupBuilders ==
    /\ clPc = "builders"
    /\ IF clIdx >= MaxPoolSize
       THEN /\ clPc' = "formatdata" /\ clIdx' = 0
            /\ UNCHANGED <<sbPool, stringBuilderPoolCount>>
       ELSE /\ clIdx' = clIdx + 1 /\ clPc' = clPc
            /\ \/ \E i \in 1..Len(sbPool) :
                    IF sbPool[i] > MaxBuilderCapacity
                    THEN /\ sbPool' = RemoveAt(sbPool, i)
                         /\ stringBuilderPoolCount' = stringBuilderPoolCount - 1
                    ELSE /\ sbPool' = Append(RemoveAt(sbPool, i),
                                             CapAfterReset(sbPool[i]))
                         /\ UNCHANGED stringBuilderPoolCount
               \/ /\ sbPool' = Append(sbPool,
                                      CapAfterReset(InitialBuilderCapacity))
                  /\ stringBuilderPoolCount' = stringBuilderPoolCount + 1
    /\ UNCHANGED <<fdPool, held, formatDataPoolCount, poolOps, lastRelease>>
    /\ UNCHANGED <<pipeVars, uiVars, mainVars, logVars, fnVars, subVars>>

\* One iteration of the second loop of cleanupPools, on formatDataPool;
\* reset keeps the capacities of the slices.
CleanupFormatData ==
    /\ clPc = "formatdata"
    /\ IF clIdx >= MaxPoolSize
       THEN /\ clPc' = "idle" /\ clIdx' = 0
            /\ UNCHANGED <<fdPool, formatDataPoolCount>>
       ELSE /\ clIdx' = clIdx + 1 /\ clPc' = clPc
            /\ \/ \E i \in 1..Len(fdPool) :
                    IF ~shouldReturnToPool(fdPool[i])
                    THEN /\ fdPool' = RemoveAt(fdPool, i)
                         /\ formatDataPoolCount' = formatDataPoolCount - 1
                    ELSE /\ fdPool' = Append(RemoveAt(fdPool, i), fdPool[i])
                         /\ UNCHANGED formatDataPoolCount
               \/ /\ fdPool' = Append(fdPool, NewFormatData)
                  /\ formatDataPoolCount' = formatDataPoolCount + 1
    /\ UNCHANGED <<sbPool, held, stringBuilderPoolCount, poolOps,
                   lastRelease>>
    /\ UNCHANGED <<pipeVars, uiVars, mainVars, logVars, fnVars, subVars>>

PoolNext ==
    \/ \E u \in Users : PoolGet(u) \/ PoolRelease(u)
    \/ \E u \in Users, n \in WriteSizes : PoolWrite(u, n)
    \/ PoolGC
    \/ CleanupStart
    \/ CleanupBuilders
    \/ CleanupFormatData

AuxOff == FnOff /\ SubOff /\ PoolOff

(***************************************************************************)
(* The router loop under a load that never ends.  The adapters deliver     *)
(* messages and status events for as long as the process runs, before and  *)
(* after cancel(); the router takes an item in its select and then makes   *)
(* the calls of handleMessage / handleError one after the other.  The      *)
(* histories of Spec are not kept here and the two counters wrap, so the   *)
(* state space is finite although the run never ends.  main goes as far as *)
(* cancel(); its waits, which are bounded by timeouts, and the closing of  *)
(* the channels are in Spec.                                               *)
(***************************************************************************)
\* Width of the router's two counters here: a Go int wraps at 2^63.
CounterBits == 1

\* *messageCount++ / *errorCount++
Incremented(n) == (n + 1) % (2 ^ CounterBits)

\* What a handler puts into a channel; late tells whether ctx was already
\* cancelled when the select took the send case.
LiveItem(k, a, d) == [kind |-> k, src |-> a, detail |-> d, late |-> cancelled]

\* The adapters are up: connected ones deliver messages, those that are
\* reconnecting report every attempt.  The router is in its loop.
LivePipeInit ==
    /\ cancelled = FALSE
    /\ messagesCh = <<>>
    /\ errorsCh = <<>>
    /\ msgClosed = FALSE
    /\ errClosed = FALSE
    /\ adapter \in [Adapters -> {"connected", "reconnecting"}]
    /\ connPc = [a \in Adapters |-> "done"]
    /\ discPc = [a \in Adapters |-> "none"]
    /\ sdPc = "waiting"
    /\ routerPc = "loop"
    /\ doneCloses = 0
    /\ messageCount = 0
    /\ errorCount = 0
    /\ crashed = FALSE
    /\ sent = 0
    /\ tries = 0
    /\ dropped = 0
    /\ warned = 0
    /\ arrived = <<>>
    /\ processed = <<>>
    /\ stages = <<>>
    /\ statusLine = ""
    /\ transitions = 0
    /\ reports = 0
    /\ statusDropped = 0

\* The message handler of MQTTClient.Connect: select { case messagesCh <-
\* msg: case <-ctx.Done(): default: warn }
LiveMessageCallback(a) ==
    /\ Alive /\ adapter[a] = "connected"
    /\ \E o \in MessageHandlerSelect :
        /\ messagesCh' = IF o = "sent"
                         THEN Append(messagesCh, LiveItem("msg", a, "message"))
                         ELSE messagesCh
        /\ crashed' = (o = "panic")
    /\ UNCHANGED <<cancelled, errorsCh, msgClosed, errClosed, adapter, connPc,
                   discPc, sdPc, routerPc, doneCloses, messageCount,
                   errorCount, sent, tries, dropped, warned, arrived,
                   processed, stages, statusLine, transitions, reports,
                   statusDropped>>
    /\ UNCHANGED <<uiVars, mainVars, logVars, auxVars>>

\* ReconnectingHandler -> connectionHandler(false, "reconnecting"), which
\* ends in safeErrorSend: select { case errorsCh <- err: case <-ctx.Done():
\* default: }
LiveReconnecting(a) ==
    /\ Alive /\ adapter[a] = "reconnecting"
    /\ \E o \in StatusHandlerSelect :
        /\ errorsCh' = IF o = "sent"
                       THEN Append(errorsCh, LiveItem("status", a, "connerror"))
                       ELSE errorsCh
        /\ crashed' = (o = "panic")
    /\ UNCHANGED <<cancelled, messagesCh, msgClosed, errClosed, adapter,
                   connPc, discPc, sdPc, routerPc, doneCloses, messageCount,
                   errorCount, sent, tries, dropped, warned, arrived,
                   processed, stages, statusLine, transitions, reports,
                   statusDropped>>
    /\ UNCHANGED <<uiVars, mainVars, logVars, auxVars>>

\* Faulty variant: the loop looks at ctx.Done() only when both queues are
\* empty
RouterCtxReady_QueuesFirst ==
    cancelled /\ messagesCh = <<>> /\ errorsCh = <<>>

\* case <-ctx.Done() of the router's select can proceed: a closed Done
\* channel is ready whatever the queues hold.
RouterCtxReady == cancelled

\* The router is at its select and takes case <-ctx.Done(): return.
LiveRouterCancelled ==
    /\ itPc = "idle"
    /\ RouterCtxReady
    /\ RouterCancelled

\* The router is at its select and takes case msg, ok := <-messagesCh
\* (k = "msg") or case err, ok := <-errorsCh (k = "status"); ok is true.
LiveTake(k) ==
    /\ Alive /\ routerPc = "loop" /\ itPc = "idle"
    /\ IF k = "msg"
       THEN /\ messagesCh # <<>>
            /\ item' = Recv(messagesCh)
            /\ messagesCh' = Tail(messagesCh)
            /\ errorsCh' = errorsCh
       ELSE /\ errorsCh # <<>>
            /\ item' = Recv(errorsCh)
            /\ errorsCh' = Tail(errorsCh)
            /\ messagesCh' = messagesCh
    /\ itPc' = "display"
    /\ UNCHANGED <<cancelled, msgClosed, errClosed, adapter, connPc, discPc,
                   sdPc, routerPc, doneCloses, messageCount, errorCount,
                   crashed, sent, tries, dropped, warned, arrived, processed,
                   stages, statusLine, transitions, reports, statusDropped>>
    /\ UNCHANGED <<clock, tickCh, tickerOn, tkPc, file, openHandles,
                   startTime, currentTime, closed, written, consumed, effects,
                   logTrace, closeTrace, created, rotations, lastRot,
                   firstLog, maxDuration, sessionFiles, muVars>>
    /\ UNCHANGED <<uiVars, mainVars, auxVars>>

\* One call of the handler has returned and the router is at position to.
LiveCallReturns(from, to) ==
    /\ Alive /\ routerPc = "loop" /\ itPc = from
    /\ itPc' = to
    /\ item' = IF to = "idle" THEN NoItem ELSE item
    /\ UNCHANGED <<cancelled, messagesCh, errorsCh, msgClosed, errClosed,
                   adapter, connPc, discPc, sdPc, routerPc, doneCloses,
                   crashed, sent, tries, dropped, warned, arrived, processed,
                   stages, transitions, reports, statusDropped>>
    /\ UNCHANGED <<clock, tickCh, tickerOn, tkPc, file, openHandles,
                   startTime, currentTime, closed, written, consumed, effects,
                   logTrace, closeTrace, created, rotations, lastRot,
                   firstLog, maxDuration, sessionFiles, muVars>>
    /\ UNCHANGED <<uiVars, mainVars, auxVars>>

\* ui.AddMessage(msg) / ui.AddError(err) returns
LiveDisplay ==
    /\ LiveCallReturns("display", "status")
    /\ UNCHANGED <<messageCount, errorCount, statusLine>>

\* *messageCount++ / *errorCount++; ui.UpdateStatus(...) returns
LiveStatus ==
    /\ LiveCallReturns("status", "log")
    /\ IF item.kind = "msg"
       THEN /\ messageCount' = Incremented(messageCount)
            /\ errorCount' = errorCount
       ELSE /\ errorCount' = Incremented(errorCount)
            /\ messageCount' = messageCount
    /\ statusLine' = StatusLine(messageCount', errorCount', clientCount)

\* sessionLogger.Log(logMessage) returns, with an error or without; the
\* handler returns and the router is at its select again.
LiveLog ==
    /\ LiveCallReturns("log", "idle")
    /\ UNCHANGED <<messageCount, errorCount, statusLine>>

LiveNext ==
    \/ ShutdownTrigger
    \/ Cancel
    \/ \E a \in Adapters : LiveMessageCallback(a) \/ LiveReconnecting(a)
    \/ LiveRouterCancelled
    \/ \E k \in {"msg", "status"} : LiveTake(k)
    \/ LiveDisplay
    \/ LiveStatus
    \/ LiveLog

\* Go's select picks uniformly at random among the cases that can proceed,
\* so a case that can proceed every time the loop comes back to the select
\* is picked at some time: strong fairness for case <-ctx.Done().  The calls
\* of the handlers return: weak fairness for each.  Nothing is required of
\* the producers or of main.
LiveFairness ==
    /\ SF_vars(LiveRouterCancelled)
    /\ WF_vars(LiveDisplay)
    /\ WF_vars(LiveStatus)
    /\ WF_vars(LiveLog)

(***************************************************************************)
(* The specifications.                                                     *)
(***************************************************************************)
Init ==
    /\ PipeInit /\ UIInit /\ truncate = FALSE /\ width = 80
    /\ MainInit /\ LogInit /\ AuxOff

Next == PipeNext

Spec == Init /\ [][Next]_vars

InitUI == PipeInit /\ UIInit /\ MainInit /\ LogInit /\ AuxOff

NextUI == UINext

SpecUI == InitUI /\ [][NextUI]_vars

SpecTwin == InitUI /\ [][TwinNext]_vars

SpecMain == Init /\ [][MainNext]_vars

SpecLog == Init /\ [][LogNext]_vars

InitMu ==
    /\ PipeInit /\ UIInit /\ truncate = FALSE /\ width = 80
    /\ MainInit /\ MuInit /\ AuxOff

SpecMu == InitMu /\ [][MuNext]_vars

InitLive ==
    /\ LivePipeInit /\ UIInit /\ truncate = FALSE /\ width = 80
    /\ MainInit /\ LogInit /\ AuxOff

SpecLive == InitLive /\ [][LiveNext]_vars /\ LiveFairness

InitFn ==
    /\ PipeInit /\ UIInit /\ truncate = FALSE /\ width = 80
    /\ MainInit /\ LogInit /\ FnInit /\ SubOff /\ PoolOff

SpecFn == InitFn /\ [][FnNext]_vars

InitSub ==
    /\ PipeInit /\ UIInit /\ truncate = FALSE /\ width = 80
    /\ MainInit /\ LogInit /\ FnOff /\ SubInit /\ PoolOff

SpecSub == InitSub /\ [][SubNext]_vars

InitPool ==
    /\ PipeInit /\ UIInit /\ truncate = FALSE /\ width = 80
    /\ MainInit /\ LogInit /\ FnOff /\ SubOff /\ PoolInit

SpecPool == InitPool /\ [][PoolNext]_vars

(***************************************************************************)
(* Properties of the display sink.                                         *)
(***************************************************************************)
\* The last n elements of q.
LastN(q, n) == SubSeq(q, Len(q) - n + 1, Len(q))

\* C9: after every AddMessage the ring buffer holds at most
\* MaxDisplayedMessages entries, and they are the last
\* min(MaxDisplayedMessages, number of calls) messages added, in order.
C9_RingBuffer ==
    /\ Len(messages) <= MaxDisplayedMessages
    /\ messages = LastN(added, Min(MaxDisplayedMessages, Len(added)))

\* More than MaxDisplayedMessages + 1 messages were added, not all alike.
C9_Witness ==
    /\ Len(added) > MaxDisplayedMessages + 1
    /\ added[1] # added[Len(added)]
    /\ messages = LastN(added, MaxDisplayedMessages)

\* C10: the format cache never holds more than MaxCacheSize entries, with
\* the router and the refresh loop inserting concurrently and the cache
\* being cleared on width changes.
C10_CacheBounded == Cardinality(DOMAIN formatCache) <= MaxCacheSize

\* An insertion found the cache full and cleaned it first, while the other
\* goroutine was inside formatMessageForDisplay.
C10_Witness ==
    /\ lastOp = "evict"
    /\ Cardinality(DOMAIN formatCache) = MaxCacheSize - EvictCount(MaxCacheSize) + 1
    /\ \E t \in Threads : fpc[t] = "insert"

(***************************************************************************)
(* Properties of the session logger, of the router iteration and of the    *)
(* shutdown triggers.                                                       *)
(***************************************************************************)
LogStep == Len(logTrace') # Len(logTrace)

CloseStep == Len(closeTrace') # Len(closeTrace)

Last(q) == q[Len(q)]

IsOk(e) == e.res = "ok"

\* C11: a Log call rotates only when currentTime - startTime is strictly
\* greater than MaxDuration, and then more than MaxDuration less one tick
\* period of wall-clock time has passed since the start of the file.
C11_RotationNotEarly ==
    rotations > 0 =>
        /\ lastRot.logical > MaxDuration
        /\ lastRot.real > MaxDuration - TickPeriod

\* A second rotation, of a file that was started between two ticks: on the
\* wall clock the file is younger than the logger takes it to be.
C11_Witness ==
    /\ rotations = 2
    /\ lastRot.real < lastRot.logical

C13_ClosedLogger ==
    [][ /\ (closed /\ LogStep) =>
              /\ Last(logTrace').res = "closed"
              /\ UNCHANGED <<written, rotations, file, openHandles,
                             startTime, closed>>
        /\ (closed /\ CloseStep) =>
              /\ Last(closeTrace') = "nil"
              /\ UNCHANGED <<file, openHandles, closed, tickerOn, startTime,
                             currentTime, written, rotations>>
        /\ (~closed /\ CloseStep) =>
              closed' /\ file' = "closed" /\ openHandles' = 0 /\ ~tickerOn'
      ]_vars

\* Close was called twice and a Log call came after the first.
C13_Witness ==
    /\ closed /\ Len(closeTrace) = 2
    /\ written # <<>>
    /\ logTrace # <<>> /\ Last(logTrace).res = "closed"

\* C14: while the logger is not closed exactly one session log file handle
\* is open.
C14_OneHandleOpen == ~closed => openHandles = 1

\* C18 (as claimed): when the router is between two items and the logger is
\* open, the lines of the session log are the items the router has taken,
\* in order.
C18_LogIsConsumedSequence ==
    (itPc = "idle" /\ ~closed) =>
        /\ Len(written) = Len(consumed)
        /\ \A i \in 1..Len(written) : written[i].n = consumed[i].n

\* What does hold of C18: for every item the router makes the display call, then
\* the status call, then the Log call, all before it takes the next item;
\* there is one Log call per item, and the lines of the session log are, in
\* order, the items whose Log call returned no error.
C18_LogInIterationOrder ==
    /\ \A j \in 1..Len(effects) :
          effects[j] = [op |-> <<"display", "status", "log">>[((j - 1) % 3) + 1],
                        n |-> ((j - 1) \div 3) + 1]
    /\ IF itPc = "idle" THEN Len(effects) = 3 * Len(consumed)
       ELSE /\ Len(effects) >= 3 * (Len(consumed) - 1)
            /\ Len(effects) < 3 * Len(consumed)
    /\ \A i \in 1..Len(logTrace) : logTrace[i].n = i
    /\ Len(written) = Len(SelectSeq(logTrace, IsOk))
    /\ \A i \in 1..Len(written) :
          written[i].n = SelectSeq(logTrace, IsOk)[i].n

\* Three items were handled on an open logger and the line of the second is
\* missing from the session log (a state that violates C18 as claimed).
C18_Witness ==
    /\ itPc = "idle" /\ ~closed
    /\ Len(consumed) = 3
    /\ Len(written) = 2 /\ written[1].n = 1 /\ written[2].n = 3

\* C19: a signal and the exit of the UI start the same shutdown sequence,
\* nothing of it runs before one of them has occurred, and it runs once,
\* also when both occur: no stage is repeated, so each queue is closed at
\* most once.
C19_ShutdownOnce ==
    /\ IsPrefix(stages, <<"cancel", "uistop", "disconnect", "discwait",
                          "routerwait", "closemsgs", "closeerrs">>)
    /\ (sdPc # "waiting") <=> (shutdownReason \in Triggers)
    /\ sdPc = "waiting" =>
          stages = <<>> /\ ~cancelled /\ ~msgClosed /\ ~errClosed

\* The sequence has run to its end on a signal, and the UI has exited too:
\* its value sits in uiDone.
C19_Witness ==
    /\ sdPc = "done" /\ msgClosed /\ errClosed
    /\ shutdownReason = "signal"
    /\ uiPc = "exited" /\ uiDone = 1

Displayed == {effects[j].n : j \in {i \in 1..Len(effects) : effects[i].op = "display"}}

\* C30: a Log call that fails ends the iteration like any other: the
\* router is ready for the next item, with the item displayed and the
\* counters as the status call left them; and every item the router takes,
\* after however many failed Log calls, is displayed, counted and handed to
\* Log.
C30_LogFailureDoesNotStopRouter ==
    /\ [][ (LogStep /\ Last(logTrace').res # "ok") =>
              /\ itPc' = "idle"
              /\ item.n \in Displayed
              /\ UNCHANGED <<messageCount, errorCount, statusLine, consumed>>
         ]_vars
    /\ [](itPc = "idle" =>
              /\ Displayed = 1..Len(consumed)
              /\ messageCount + errorCount = Len(consumed)
              /\ Len(logTrace) = Len(consumed))
    /\ [][ (itPc = "idle" /\ Len(consumed) < MaxItems) =>
              ENABLED (\E k \in {"msg", "status"} : TakeItem(k)) ]_vars

\* Three items were handled; the Log call of the first failed and the
\* later ones were made all the same.
C30_Witness ==
    /\ itPc = "idle" /\ Len(consumed) = 3 /\ Len(logTrace) = 3
    /\ logTrace[1].res # "ok"
    /\ Displayed = {1, 2, 3}
    /\ messageCount + errorCount = 3

(***************************************************************************)
(* Properties of NewMonitorMessage: topic truncation and payload           *)
(* sanitization.                                                           *)
(***************************************************************************)
\* The number of bytes of s that are in the set cs.
CountIn(s, cs) == Cardinality({i \in 1..Len(s) : At(s, i) \in cs})

\* out is topic when depth <= 0 or topic has at most depth levels, and
\* otherwise what follows one of the slashes of topic and has depth levels.
LastLevels(topic, depth, out) ==
    IF depth <= 0 \/ CountIn(topic, {"/"}) + 1 <= depth
    THEN out = topic
    ELSE /\ CountIn(out, {"/"}) = depth - 1
         /\ \E p \in 1..Len(topic) :
               At(topic, p) = "/" /\ out = SubSeq(topic, p + 1, Len(topic))

\* C21: for every topic and depth TruncateTopic (and FormatTopicForDisplay)
\* returns the topic unchanged when depth <= 0 or the topic has at most
\* depth levels, and otherwise exactly its last depth levels joined by '/'.
C21_TopicTruncation ==
    /\ fnPc = "built" => LastLevels(rawTopic, topicDepth, built.DisplayTopic)
    /\ formatted # "?" => LastLevels(rawTopic, topicDepth, formatted)

\* truncate("a/b/c/d", 2) = "c/d", by both functions.
C21_Witness ==
    /\ fnPc = "built" /\ rawTopic = "a/b/c/d" /\ topicDepth = 2
    /\ built.DisplayTopic = "c/d" /\ formatted = "c/d"

Blanks == {" ", "\t", "\n", "\r", "\f"}

\* s without its spaces and control characters.
RECURSIVE Solid(_)
Solid(s) ==
    IF s = "" THEN ""
    ELSE (IF At(s, 1) \in Blanks THEN "" ELSE At(s, 1))
         \o Solid(SubSeq(s, 2, Len(s)))

\* The number of tokens of s: the positions where a run of other bytes
\* begins.
Tokens(s) ==
    Cardinality({i \in 1..Len(s) :
                    /\ At(s, i) \notin Blanks
                    /\ i = 1 \/ At(s, i - 1) \in Blanks})

\* What is left of a payload after the size cap, with the marker.
Capped(payload) ==
    IF Len(payload) > maxMessageSize
    THEN SubSeq(payload, 1, maxMessageSize) \o "..."
    ELSE payload

\* C22: the sanitized payload has no control character, no leading,
\* trailing or consecutive spaces, holds the tokens of the payload separated
\* by one space each, and a payload longer than maxMessageSize is cut to
\* maxMessageSize bytes and ends with the marker "...".
C22_Sanitized ==
    fnPc = "built" =>
        LET out == built.Payload
        IN  /\ CountIn(out, {"\t", "\n", "\r", "\f"}) = 0
            /\ out # "" => At(out, 1) # " " /\ At(out, Len(out)) # " "
            /\ \A i \in 1..(Len(out) - 1) :
                  ~(At(out, i) = " " /\ At(out, i + 1) = " ")
            /\ Solid(out) = Solid(Capped(rawPayload))
            /\ CountIn(out, {" "}) =
                  IF Tokens(Capped(rawPayload)) = 0 THEN 0
                  ELSE Tokens(Capped(rawPayload)) - 1
            /\ Len(rawPayload) > maxMessageSize =>
                  /\ Len(out) >= 3 /\ Len(out) <= maxMessageSize + 4
                  /\ SubSeq(out, Len(out) - 2, Len(out)) = "..."

\* A payload over the cap with a tab and a newline in it.
C22_Witness ==
    /\ fnPc = "built" /\ rawPayload = "a\t\n."
    /\ Len(rawPayload) > maxMessageSize
    /\ built.Payload = "a ..."

(***************************************************************************)
(* Further properties of the display sink.                                 *)
(***************************************************************************)
\* The message buffer the README promises (README.md:17-18): 10,000
\* messages, ten times MaxDisplayedMessages of ui.go:40.
ReadmeBufferSize == 10 * MaxDisplayedMessages

\* C23: the display keeps the most recent ReadmeBufferSize messages that
\* were added.
C23_ReadmeBufferRetained ==
    messages = LastN(added, Min(ReadmeBufferSize, Len(added)))

\* The cache keys formatMessageForDisplay builds at width w.
KeysAt(w) == {KeyTable[m, w, t] : m \in Msgs, t \in BOOLEAN}

\* C25: when a render request made at the present width is about to be
\* served from the format cache, the cache holds no entry created under
\* another width: it has been emptied since the width changed.
C25_NoStaleEntriesAtRender ==
    \A t \in Threads :
        (fpc[t] = "lookup" /\ fkey[t] \in KeysAt(width)) =>
            DOMAIN formatCache \subseteq KeysAt(width)

\* Goroutine t stores its result in the format cache in this step.
InsertStep(t) == fpc[t] = "insert" /\ fpc'[t] = "idle"

CacheSize(c) == Cardinality(DOMAIN c)

\* C27 (as claimed): an insertion that finds the cache at capacity leaves
\* MaxCacheSize/2 + 1 entries in it; below capacity it only adds its key.
C27_HalfPlusOneAfterEviction ==
    [][ \A t \in Threads : InsertStep(t) =>
          IF CacheSize(formatCache) >= MaxCacheSize
          THEN CacheSize(formatCache') = (MaxCacheSize \div 2) + 1
          ELSE DOMAIN formatCache' = DOMAIN formatCache \cup {fkey[t]}
      ]_vars

\* C27 (amended): an insertion that finds the cache at capacity removes
\* MaxCacheSize/2 entries and then stores its key; that leaves
\* MaxCacheSize - MaxCacheSize/2 + 1 entries when the key was not in the
\* cache, and never more.  Below capacity it removes nothing.
C27_EvictsHalf ==
    [][ \A t \in Threads : InsertStep(t) =>
          LET n == CacheSize(formatCache)
              half == MaxCacheSize \div 2
          IN  IF n >= MaxCacheSize
              THEN /\ \E gone \in SUBSET DOMAIN formatCache :
                        /\ Cardinality(gone) = half
                        /\ DOMAIN formatCache' =
                              (DOMAIN formatCache \ gone) \cup {fkey[t]}
                   /\ CacheSize(formatCache') <= MaxCacheSize - half + 1
                   /\ fkey[t] \notin DOMAIN formatCache =>
                        CacheSize(formatCache') = MaxCacheSize - half + 1
              ELSE DOMAIN formatCache' = DOMAIN formatCache \cup {fkey[t]}
      ]_vars

\* An insertion has cleaned the full cache and stored a key that the other
\* goroutine had stored since the miss: one entry less than usual is left.
C27_Witness ==
    /\ lastOp = "evict"
    /\ CacheSize(formatCache) = MaxCacheSize - (MaxCacheSize \div 2)
    /\ \A t \in Threads : fpc[t] = "idle"

\* The visible length of the prefix formatWithTruncation puts before the
\* payload of msg: the line of the same message with an empty payload.
VisiblePrefixLength(msg, w) ==
    getVisibleLengthOptimized(
        formatWithTruncation([msg EXCEPT !.Payload = ""], w))

Max(x, y) == IF x >= y THEN x ELSE y

\* C28: in truncated mode, when a goroutine is about to render a message at
\* the present width w, the payload part of the line has at most
\* max(w - visible prefix length, MinimumPayloadWidth) characters, ends
\* with "..." when it was cut, and the visible line is no longer than w
\* whenever w - visible prefix length >= MinimumPayloadWidth.
C28_TruncatedLineFits ==
    \A t \in Threads :
        (fpc[t] = "insert" /\ truncate) =>
            LET line == formatWithTruncation(fmsg[t], width)
                pre == VisiblePrefixLength(fmsg[t], width)
                len == getVisibleLengthOptimized(line)
                clean == cleanPayloadTextOptimized(fmsg[t].Payload)
            IN  /\ len - pre <= Max(width - pre, MinimumPayloadWidth)
                /\ len - pre < Len(clean) =>
                      SubSeq(line, Len(line) - 2, Len(line)) = "..."
                /\ width - pre >= MinimumPayloadWidth => len <= width

(***************************************************************************)
(* Properties of an adapter becoming connected.                            *)
(***************************************************************************)
\* The enqueue attempts the handler has made since the adapter became
\* connected last.
ReportsNow == SelectSeq(subReports, LAMBDA e : e.connect = connects)

\* C24: when the handling of a connect is over, the subscription of every
\* configured topic has been attempted, one StatusEvent enqueue attempt has
\* been made, and it carries the failure detail exactly if a subscription
\* has failed; a failure does not take the adapter out of Connected.
C24_SubscribesAllAndReports ==
    (hPc = "idle" /\ connects > 0) =>
        /\ Range(cfgTopics) \subseteq attempted
        /\ Len(ReportsNow) = 1
        /\ ReportsNow[1].detail = IF failedNow THEN "suberror" ELSE "subscribed"

(***************************************************************************)
(* Properties of the object pools.                                         *)
(***************************************************************************)
\* C26 (as claimed): a builder that had grown past MaxBuilderCapacity when
\* its user released it was not returned to the pool.
C26_OversizedNotReturned ==
    lastRelease.grown > MaxBuilderCapacity => ~lastRelease.returned

\* What does hold of C26: no object in either pool has a capacity above its
\* ceiling; a builder is emptied on release, which drops its storage
\* whatever its size, and the emptied builder is always returned to the
\* pool: every builder in the pool has capacity 0.
C26_PoolWithinCeiling ==
    /\ \A i \in 1..Len(sbPool) :
          sbPool[i] <= MaxBuilderCapacity /\ sbPool[i] = 0
    /\ \A i \in 1..Len(fdPool) : shouldReturnToPool(fdPool[i])
    /\ lastRelease # NoRelease =>
          lastRelease.returned /\ lastRelease.after = 0

\* A builder that had grown past the ceiling has been released and is in
\* the pool, emptied.
C26_Witness ==
    /\ lastRelease.grown > MaxBuilderCapacity
    /\ lastRelease.returned
    /\ sbPool # <<>> /\ sbPool[Len(sbPool)] = 0

(***************************************************************************)
(* Sanitizing a payload that has been sanitized.                           *)
(***************************************************************************)
\* C39: SanitizePayload is idempotent: sanitizing the payload of a built
\* message again gives that payload, also for a payload longer than the
\* size cap whose kept part has whitespace runs or control characters.
C39_SanitizeIdempotent ==
    fnPc = "built" => SanitizePayload(built.Payload) = built.Payload

\* What does hold of C39: a sanitized payload of at most maxMessageSize
\* bytes is a fixed point of SanitizePayload.
C39_IdempotentWithinCap ==
    (fnPc = "built" /\ Len(built.Payload) <= maxMessageSize) =>
        SanitizePayload(built.Payload) = built.Payload

(***************************************************************************)
(* The client's list of subscribed topics over reconnects.                 *)
(***************************************************************************)
\* C36: after any number of connect/reconnect cycles Client.topics holds
\* each configured topic at most once, so it is no longer than the list of
\* configured topics, and so is the list the re-subscribe loop ranges over.
C36_TopicsListBounded ==
    /\ \A i, j \in 1..Len(cTopics) : cTopics[i] = cTopics[j] => i = j
    /\ Len(cTopics) <= Len(cfgTopics)
    /\ Len(rTopics) <= Len(cfgTopics)

(***************************************************************************)
(* The adapter after Disconnect.                                           *)
(***************************************************************************)
\* The states of an adapter whose Connect has been called and that has not
\* failed or been disconnected: Connecting (before and after the paho
\* client exists), Connected, and Reconnecting (the connection is lost, the
\* library has or has not yet announced the reconnect).
InConnectCycle ==
    {"preparing", "connecting", "connected", "lost", "reconnecting"}

\* C34: when a Disconnect called on an adapter that is Connecting, Connected
\* or Reconnecting returns, the adapter is Disconnected; a Disconnected
\* adapter stays Disconnected, and makes no further enqueue attempt.
C34_DisconnectedAfterReturn ==
    [][\A a \in Adapters :
          /\ (/\ discPc[a] \in {"called", "inlib"}
              /\ discPc'[a] = "returned"
              /\ discPc[a] = "called" => adapter[a] \in InConnectCycle)
             => adapter'[a] = "disconnected"
          /\ adapter[a] = "disconnected" => adapter'[a] = "disconnected"]_vars

\* What does hold of C34: an adapter that Client.Disconnect has
\* disconnected stays Disconnected.
C34_DisconnectedStays ==
    [][\A a \in Adapters :
          adapter[a] = "disconnected" => adapter'[a] = "disconnected"]_vars

(***************************************************************************)
(* The handlers of an adapter and the start of the connection.             *)
(***************************************************************************)
\* C33: both callbacks are registered before the underlying client starts
\* connecting: once the paho client exists the message handler and the
\* connection handler are set, and no library callback has found its
\* handler nil.
C33_HandlersSetBeforeConnect ==
    /\ subState \notin {"off", "new"} => messageHandler /\ connectionHandler
    /\ unheard = 0

\* The adapter has connected and a message has come in; both reached their
\* handlers.
C33_Witness ==
    /\ subState = "connected" /\ connects > 0 /\ subReports # <<>>
    /\ callbacks # <<>> /\ messageHandler /\ connectionHandler
    /\ unheard = 0

(***************************************************************************)
(* The format cache and the rendering of a message.                        *)
(***************************************************************************)
\* What formatMessageForDisplay computes for msg without the cache, at any
\* of the widths the terminal can have during the call.
Renderings(msg) == {RenderTable[msg, w, truncate] : w \in Widths}

\* C35: the string formatMessageForDisplay returns for a message, to
\* AddMessage or to the refresh loop, from the cache or after a miss, is
\* the string the render function computes for that very message.
C35_CacheTransparent ==
    [][\A t \in Threads :
          (fpc[t] \in {"lookup", "insert"} /\ fpc'[t] = "idle") =>
              (IF fpc[t] = "lookup" THEN formatCache[fkey[t]]
               ELSE formatCache'[fkey[t]]) \in Renderings(fmsg[t])]_vars

(***************************************************************************)
(* The refresh loop and the ring buffer.                                   *)
(***************************************************************************)
\* The index of ui.messages the range loop of refreshAllMessages reads
\* next.
NextToRead == IF fpc["ui"] = "idle" THEN rIdx ELSE rIdx + 1

\* C37: the refresh loop sees one snapshot of the ring buffer: once it has
\* read its first element, no element it has yet to read changes, so what
\* it renders is a contiguous run of messages in arrival order with none
\* skipped and none twice.  Stated for a buffer that has overflowed before:
\* from then on the backing array has room and AddMessage appends and
\* shifts in place.
C37_RefreshSeesSnapshot ==
    [][(NextToRead > 1 /\ Len(added) > MaxDisplayedMessages) =>
          \A p \in NextToRead..rLen : messages'[p] = messages[p]]_vars

(***************************************************************************)
(* Properties of the session logger taken statement by statement.          *)
(***************************************************************************)
\* The callers that are between their Lock and their Unlock of sl.mu.
InCritical ==
    (IF lgPc \in {"check", "write"} THEN {"log"} ELSE {})
    \cup (IF clsPc \in {"mark", "file"} THEN {"close"} ELSE {})
    \cup (IF tkPc = "set" THEN {"timeKeeper"} ELSE {})

\* C31: Log, Close and the clock-tick update exclude each other: at most
\* one of them is under the mutex; between the rotation check of a Log
\* call and its write neither now nor the closed flag nor the handle
\* changes; while Close is between marking the logger closed and closing
\* the handle nothing is written and no Log call returns; a line is written
\* only to a logger that Close has not marked, and a Log call that returns
\* the closed error has written nothing.
C31_MutualExclusion ==
    [][ /\ Cardinality(InCritical) <= 1
        /\ lgPc = "write" =>
              UNCHANGED <<currentTime, closed, file, startTime>>
        /\ clsPc = "file" => UNCHANGED <<written, logTrace, currentTime>>
        /\ written' # written => ~closed /\ ~closed'
        /\ (logTrace' # logTrace /\ Last(logTrace').res = "closed") =>
              written' = written /\ closed ]_vars

\* A Log call is between its rotation check and its write, holding the
\* mutex, while timeKeeper has a newer tick in hand and waits for the
\* mutex, and Close has not run.
C31_Witness ==
    /\ lgPc = "write" /\ mu = "log"
    /\ tkPc = "lock" /\ tkT > currentTime
    /\ ~closed /\ written # <<>>

C32_RouterTerminates ==
    cancelled ~> (routerPc = "returned" /\ doneCloses = 1)

\* After cancel() the router has taken an item that was enqueued after
\* cancel(), and both channels hold items again.
C32_Witness ==
    /\ cancelled /\ routerPc = "loop" /\ itPc = "display" /\ item.late
    /\ messagesCh # <<>> /\ errorsCh # <<>>

====
